---- MODULE Spec2Model ----
(***************************************************************************)
(* Model of the verification scripts of toukon_elixir:                     *)
(*   integration-test.js  the runner (runIntegrationTests) and its report  *)
(*   lighthouse-test.js   the audit wrapper (runLighthouseAudit)           *)
(*   browser-test.js      the browser wrapper (runBrowserTests)            *)
(*   deployment-test.js   the deployment wrapper (runDeploymentTests)      *)
(* Every execSync / fs / https call is an external collaborator: its       *)
(* outcome is drawn nondeterministically where the code makes the call.    *)
(***************************************************************************)
EXTENDS Integers, Sequences, FiniteSets, TLC

\* ------------------------------------------------------------------ bounds
\* how many times the local server may go up or down during one run
MaxFlips == 2
\* scores are drawn within this distance of each category's threshold
MaxDelta == 1
\* longest results collection handed to generateComprehensiveReport
MaxResults == 3
\* how many results.<name> = ... statements a recording sequence may hold
MaxAssignments == 4
\* how many more times a script is started after its first run
MaxRuns == 1
\* how many 'data' events one response body may arrive in
MaxChunks == 2
\* how many of the page's meta tags may be missing at once
MaxMissing == 2
\* how many words run-tests.sh is called with at most
MaxArgs == 2
\* how many listeners of one kind, and pending timeouts, the page may hold
MaxListeners == 4
\* the largest width and height of the plate's rectangle
MaxPlateWidth == 20
MaxPlateHeight == 12
\* how many visible interactive elements the page has at most
MaxTargets == 3

\* ------------------------------------------------------------ JS values
\* the value of a missing property (undefined)
Undefined == "undefined"

\* --------------------------------------------- lighthouse-test.js CONFIG
Categories == <<"performance", "accessibility", "bestPractices", "seo">>
CategorySet == {Categories[i] : i \in DOMAIN Categories}

CONFIG_thresholds ==
  [c \in CategorySet |->
     CASE c = "performance"   -> 90
       [] c = "accessibility" -> 95
       [] c = "bestPractices" -> 90
       [] c = "seo"           -> 95]

\* ------------------------------------------------ browser-test.js CONFIG
CONFIG_browsers == <<"chromium", "firefox", "webkit">>

\* ----------------------------------------------------------------- state
VARIABLES
  main,           \* the script executed directly (require.main)
  runLocal,       \* integration-test.js CONFIG.runLocal
  runDeployment,  \* integration-test.js CONFIG.runDeployment
  thresholds,     \* lighthouse-test.js CONFIG.thresholds
  serverUp,       \* is http://localhost:8000 answering right now
  flips,          \* how often the server changed so far
  pc,             \* position of the single thread of control
  results,        \* runIntegrationTests: const results = {}
  assignments,    \* how many results.<name> = ... statements have run
  ret,            \* settled outcome of the awaited wrapper promise
  outcome,        \* how each wrapper called in this run settled
  scores,         \* runLighthouseAudit: const scores
  verdicts,       \* runLighthouseAudit: the per-category marks printed
  browserResults, \* runBrowserTests: const results = {}
  deployResults,  \* runDeploymentTests: const results = {}
  procFailed,     \* external invocations whose failure was caught so far
  written,        \* report files written by this run
  disk,           \* the report directories: file |-> what was written last
  clock,          \* the time new Date() reads, in milliseconds
  http,           \* the https request checkHTTPS has in flight
  cname,          \* what verifyDomainAndHTTPS found of the CNAME file
  sh,             \* run-tests.sh: its flags, its position, OVERALL_SUCCESS
  img,            \* the hero image element and its SVG fallback
  win,            \* the browser window: width, media queries, listeners
  anim,           \* the PhoenixAnimationController of the page
  rv,             \* ResponsiveVerification: this.results and its position
  report,         \* generateComprehensiveReport: const report
  html,           \* what generateHTMLReport rendered
  exitCode,       \* process exit code, -1 while running
  exitSite        \* the process.exit call that ended the process

vars == <<main, runLocal, runDeployment, thresholds, serverUp, flips, pc,
          results, assignments, ret, outcome, scores, verdicts, browserResults,
          deployResults, procFailed, written, disk, clock, http, cname, report,
          html, exitCode, exitSite, sh, img, win, anim, rv>>

configVars == <<main, runLocal, runDeployment, thresholds>>
pageVars   == <<img, win, anim>>
uiVars     == <<sh, pageVars, rv>>
envVars    == <<serverUp, flips, clock>>
resultVars == <<results, assignments>>
fileVars   == <<written, disk>>
lhVars     == <<scores, verdicts>>
reportVars == <<report, html>>
exitVars   == <<exitCode, exitSite>>

\* ------------------------------------------------------- wrapper outcomes
NoRet        == [kind |-> "none"]
Value(b)     == [kind |-> "value", value |-> b]
Thrown(msg)  == [kind |-> "throw", message |-> msg]

NoScores   == [c \in {} |-> 0]
NoVerdicts == [c \in {} |-> "pass"]
NoReport   == [generated |-> FALSE]
NoPage     == [found |-> {}, jsonLd |-> "none", favicon |-> FALSE, marker |-> FALSE]
NoRequest  == [state |-> "none", idle |-> 0, chunks |-> 0, statusCode |-> 0,
               message |-> "", destroyed |-> FALSE, page |-> NoPage,
               certificate |-> "none"]
NoHtml     == [rendered |-> FALSE]
\* a script, a page or a verification that has not been started
NotStarted == [pc |-> "none"]

\* error.message of a failed fs.writeFileSync
WriteErrors == {"ENOENT: no such file or directory", "ENOSPC: no space left on device"}

\* ================================================= lighthouse-test.js
\* CONFIG.thresholds[category]: a category without an entry reads undefined
HasThreshold(th, c) == c \in DOMAIN th

\* variant: the comparison is strict
MeetsThresholdStrict(sc, th, c) ==
  IF HasThreshold(th, c) THEN sc[c] > th[c] ELSE FALSE

\* variant: a category without a threshold is let through
MeetsThresholdLenient(sc, th, c) ==
  IF HasThreshold(th, c) THEN sc[c] >= th[c] ELSE TRUE

\* score >= threshold as JavaScript evaluates it: with a missing threshold
\* the right-hand side is undefined, which converts to NaN, and any
\* comparison with NaN is false
MeetsThreshold(sc, th, c) ==
  IF HasThreshold(th, c) THEN sc[c] >= th[c] ELSE FALSE

\* the mark printed for one category (the forEach over the scores)
CategoryStatus(sc, th, c) == IF MeetsThreshold(sc, th, c) THEN "pass" ELSE "fail"

\* the marks of all categories of the scores
CategoryVerdicts(sc, th) == [c \in DOMAIN sc |-> CategoryStatus(sc, th, c)]

\* variant: some() in place of every()
SomeThresholdMet(sc, th) == \E c \in DOMAIN sc : MeetsThreshold(sc, th, c)

\* Object.entries(scores).every(([category, score]) => score >= threshold)
AllThresholdsMet(sc, th) == \A c \in DOMAIN sc : MeetsThreshold(sc, th, c)

\* the scores an audit can report for a category
ScoreValues(c) ==
  {0, 100} \cup ((CONFIG_thresholds[c] - MaxDelta) .. (CONFIG_thresholds[c] + MaxDelta))
ScoreSets ==
  {[c \in CategorySet |->
      CASE c = "performance"   -> p
        [] c = "accessibility" -> a
        [] c = "bestPractices" -> b
        [] c = "seo"           -> s] :
     p \in ScoreValues("performance"), a \in ScoreValues("accessibility"),
     b \in ScoreValues("bestPractices"), s \in ScoreValues("seo")}

\* threshold configurations a caller can install through the exported CONFIG:
\* each category keeps its configured minimum or has no entry
ThresholdConfigs ==
  {[c \in D |-> CONFIG_thresholds[c]] : D \in SUBSET CategorySet}

\* ================================================ integration-test.js
SuiteNames == <<"lighthouseAudit", "browserTests", "deploymentVerification">>
SuiteSet == {SuiteNames[i] : i \in DOMAIN SuiteNames}

Description(name) ==
  CASE name = "lighthouseAudit"        -> "Lighthouse performance audit"
    [] name = "browserTests"           -> "Cross-browser compatibility tests"
    [] name = "deploymentVerification" -> "GitHub Pages deployment verification"
    [] OTHER                           -> name

Details(name) ==
  CASE name = "lighthouseAudit" ->
         "Performance, accessibility, SEO, and best practices validation"
    [] name = "browserTests" ->
         "Responsive design, animations, and accessibility across browsers"
    [] name = "deploymentVerification" ->
         "GitHub Actions, custom domain, HTTPS, and SEO validation"
    [] OTHER -> name

\* variant: every assignment adds a new entry
AssignAppends(obj, name, value) == Append(obj, value)

\* variant: the new key is placed before the existing ones
AssignFront(obj, name, value) ==
  IF \E i \in DOMAIN obj : obj[i].name = name
  THEN [i \in DOMAIN obj |-> IF obj[i].name = name THEN value ELSE obj[i]]
  ELSE <<value>> \o obj

\* results.<name> = value on a JavaScript object: keys keep insertion order,
\* assigning an existing key replaces its value in place
Assign(obj, name, value) ==
  IF \E i \in DOMAIN obj : obj[i].name = name
  THEN [i \in DOMAIN obj |-> IF obj[i].name = name THEN value ELSE obj[i]]
  ELSE Append(obj, value)

\* variant: a suite that was not run is stored as FAILED
SkippedResultAsFailed(name) ==
  [name |-> name, status |-> "FAILED", description |-> Description(name),
   error |-> "Local server not accessible", details |-> Undefined]

\* the object literal the runner stores for a skipped suite
SkippedResult(name) ==
  [name |-> name, status |-> "SKIPPED", description |-> Description(name),
   error |-> "Local server not accessible", details |-> Undefined]

\* variant: the catch branch drops the error's message
SettledResultDropsMessage(name, r) ==
  IF r.kind = "throw"
  THEN [name |-> name, status |-> "FAILED", description |-> Description(name),
        error |-> Undefined, details |-> Undefined]
  ELSE [name |-> name, status |-> IF r.value THEN "PASSED" ELSE "FAILED",
        description |-> Description(name),
        error |-> Undefined, details |-> Details(name)]

\* variant: the try branch stores PASSED whatever the wrapper returned
SettledResultAlwaysPassed(name, r) ==
  IF r.kind = "throw"
  THEN [name |-> name, status |-> "FAILED", description |-> Description(name),
        error |-> r.message, details |-> Undefined]
  ELSE [name |-> name, status |-> "PASSED",
        description |-> Description(name),
        error |-> Undefined, details |-> Details(name)]

\* the object literal the runner stores after the awaited wrapper settled:
\* the try branch for a resolved promise, the catch branch for a rejected one
SettledResult(name, r) ==
  IF r.kind = "throw"
  THEN [name |-> name, status |-> "FAILED", description |-> Description(name),
        error |-> r.message, details |-> Undefined]
  ELSE [name |-> name, status |-> IF r.value THEN "PASSED" ELSE "FAILED",
        description |-> Description(name),
        error |-> Undefined, details |-> Details(name)]

\* Object.values(results).filter(r => r.status === s).length
CountStatus(res, s) == Cardinality({i \in DOMAIN res : res[i].status = s})

\* variant: Math.floor in place of Math.round
MathFloor(num, den) == num \div den

\* Math.round(x) for x = num/den >= 0: halves round up (the double
\* arithmetic of passedTests / totalTests * 100 agrees with the exact
\* quotient for every total below 40)
MathRound(num, den) == (2 * num + den) \div (2 * den)

\* variant: no guard for an empty collection; -1 stands for the NaN of 0/0
OverallScoreUnguarded(passed, total) ==
  IF total = 0 THEN -1 ELSE MathRound(100 * passed, total)

\* totalTests > 0 ? Math.round((passedTests / totalTests) * 100) : 0
OverallScore(passed, total) == IF total > 0 THEN MathRound(100 * passed, total) ELSE 0

\* variant: skipped suites are counted as failed
SummarySkippedAsFailed(res) ==
  [totalTestSuites |-> Len(res),
   passed  |-> CountStatus(res, "PASSED"),
   failed  |-> CountStatus(res, "FAILED") + CountStatus(res, "SKIPPED"),
   skipped |-> CountStatus(res, "SKIPPED"),
   overallScore |-> OverallScore(CountStatus(res, "PASSED"), Len(res))]

\* the summary member of the report object
Summary(res) ==
  [totalTestSuites |-> Len(res),
   passed  |-> CountStatus(res, "PASSED"),
   failed  |-> CountStatus(res, "FAILED"),
   skipped |-> CountStatus(res, "SKIPPED"),
   overallScore |-> OverallScore(CountStatus(res, "PASSED"), Len(res))]

\* the report object of generateComprehensiveReport
ComprehensiveReport(res) ==
  [generated |-> TRUE, timestamp |-> clock,
   testSuite |-> "Integration Tests",
   environment |-> <<"process.version", "process.platform", "process.arch">>,
   results |-> res, summary |-> Summary(res),
   requirements |-> <<"2.1", "2.2", "5.1">>]

\* the members of one result object, in the order of the object literals
ResultMembers(r) ==
  <<<<"status", r.status>>, <<"description", r.description>>,
    <<"details", r.details>>, <<"error", r.error>>>>

IsDefined(member) == member[2] # Undefined

\* variant: the serialization leaves the details member out
StringifyResultDropsDetails(r) ==
  <<r.name, SelectSeq(ResultMembers(r),
                      LAMBDA m : IsDefined(m) /\ m[1] # "details")>>

\* JSON.stringify of one entry of results: the key and the members whose
\* value is defined (a member holding undefined is left out)
StringifyResult(r) == <<r.name, SelectSeq(ResultMembers(r), IsDefined)>>

\* JSON.stringify(report, null, 2)
Stringify(rep) ==
  [timestamp |-> rep.timestamp,
   testSuite |-> rep.testSuite,
   environment |-> rep.environment,
   requirements |-> rep.requirements,
   results   |-> [i \in DOMAIN rep.results |-> StringifyResult(rep.results[i])],
   summary   |-> rep.summary]

\* the value JSON.parse gives back for a member: undefined when it is absent
Member(members, key) ==
  IF \E i \in DOMAIN members : members[i][1] = key
  THEN members[CHOOSE i \in DOMAIN members : members[i][1] = key][2]
  ELSE Undefined

\* JSON.parse of one entry of the document's results
ParseResult(entry) ==
  [name |-> entry[1],
   status |-> Member(entry[2], "status"),
   description |-> Member(entry[2], "description"),
   error |-> Member(entry[2], "error"),
   details |-> Member(entry[2], "details")]

ParseResults(entries) == [i \in DOMAIN entries |-> ParseResult(entries[i])]

\* ------------------------------------------------------ report directories
\* a file whose name carries the timestamp read when it is written
Stamped(file) == [file |-> file, stamp |-> clock]

\* a file whose name is a literal ("-" in place of a timestamp)
Fixed(file) == [file |-> file, stamp |-> -1]

\* fs.writeFileSync(path, doc): creates the file or replaces its content
WriteFile(d, path, doc) ==
  [q \in DOMAIN d \cup {path} |->
     IF q = path THEN [time |-> clock, doc |-> doc] ELSE d[q]]

NoFiles == [q \in {} |-> 0]

StatusIcon(status) ==
  CASE status = "PASSED"  -> "check"
    [] status = "FAILED"  -> "cross"
    [] status = "SKIPPED" -> "skip"
    [] OTHER              -> "question"

StatusColor(status) ==
  CASE status = "PASSED"  -> "#22c55e"
    [] status = "FAILED"  -> "#ef4444"
    [] status = "SKIPPED" -> "#f59e0b"
    [] OTHER              -> "#6b7280"

\* a JavaScript value used as a condition
Truthy(v) == v # Undefined /\ v # ""

\* variant: the error paragraph is emitted for every result
RenderItemAlwaysError(r) ==
  [heading     |-> <<StatusIcon(r.status), r.name>>,
   description |-> r.description,
   errorText   |-> <<"Error: ", r.error>>,
   detailText  |-> IF Truthy(r.details) THEN <<r.details>> ELSE <<>>,
   badge       |-> <<StatusColor(r.status), r.status>>]

\* one result-item block of the template
RenderItem(r) ==
  [heading     |-> <<StatusIcon(r.status), r.name>>,
   description |-> r.description,
   errorText   |-> IF Truthy(r.error) THEN <<"Error: ", r.error>> ELSE <<>>,
   detailText  |-> IF Truthy(r.details) THEN <<r.details>> ELSE <<>>,
   badge       |-> <<StatusColor(r.status), r.status>>]

\* Object.entries(report.results).map(...) keeps the order of the keys
RenderItems(res) == [i \in DOMAIN res |-> RenderItem(res[i])]

\* generateHTMLReport(report)
HTMLReport(rep) ==
  [rendered |-> TRUE,
   score    |-> rep.summary.overallScore,
   cards    |-> <<rep.summary.passed, rep.summary.failed,
                  rep.summary.skipped, rep.summary.totalTestSuites>>,
   items    |-> RenderItems(rep.results)]

\* ================================================== deployment-test.js
RequiredMeta == {"Title", "Description", "OG Title", "OG Description",
                 "OG Image", "OG URL", "Twitter Card", "Canonical URL"}
OptionalMeta == {"Theme Color"}

\* the sets of meta tags the fetched page can contain
FoundSets ==
  {(RequiredMeta \cup OptionalMeta) \ missing :
     missing \in {m \in SUBSET (RequiredMeta \cup OptionalMeta) : Cardinality(m) <= MaxMissing}}

\* options.timeout of checkHTTPS, in seconds
TimeoutSeconds == 10

\* the landing page with every tag; marker: the body includes the site's name
SitePage(marker) ==
  [found |-> RequiredMeta \cup OptionalMeta, jsonLd |-> "valid", favicon |-> TRUE,
   marker |-> marker]

\* the pages the host can serve: the meta tags present, the JSON-LD blocks
\* (none, parseable, not parseable), whether a favicon link is present, and
\* a page of some other site, whose body lacks the site's name
Pages ==
  [found : FoundSets, jsonLd : {"none", "valid", "invalid"}, favicon : BOOLEAN,
   marker : {TRUE}] \cup {SitePage(FALSE)}

\* res.connection.getPeerCertificate() at the response's end: null once the
\* socket has been released, else the certificate, which new Date() finds
\* inside or outside its valid_from .. valid_to window
Certificates == {"none", "valid", "expired"}

\* the page and the certificate a response ends with
Served ==
  {<<page, "valid">> : page \in Pages} \cup
  {<<SitePage(marker), cert>> : marker \in BOOLEAN, cert \in Certificates}

\* https.request(options, callback); req.end(): the request is in flight
NewRequest == [NoRequest EXCEPT !.state = "pending"]

\* the callback of https.request: the response head has arrived
OnResponse(req, statusCode) ==
  [req EXCEPT !.state = "receiving", !.statusCode = statusCode, !.idle = 0]

\* res.on('data'): data += chunk
OnData(req) == [req EXCEPT !.chunks = @ + 1, !.idle = 0]

\* res.on('end'): resolve({statusCode, headers, body, certificate})
OnEnd(req, page, cert) ==
  [req EXCEPT !.state = "resolved", !.page = page, !.certificate = cert, !.idle = 0]

\* req.on('error'): reject(error)
OnError(req, message) ==
  [req EXCEPT !.state = "rejected", !.message = message, !.idle = 0]

\* variant: the timeout handler destroys the request and does not reject
OnTimeoutOnlyDestroys(req) == [req EXCEPT !.destroyed = TRUE]

\* req.on('timeout'): req.destroy(); reject(new Error('Request timeout'))
OnTimeout(req) ==
  [req EXCEPT !.state = "rejected", !.message = "Request timeout", !.destroyed = TRUE]

\* what the await of checkHTTPS gives its caller
Awaited(req) ==
  IF req.state = "resolved"
  THEN [kind |-> "response", statusCode |-> req.statusCode,
        certificate |-> req.certificate, marker |-> req.page.marker]
  ELSE [kind |-> "error", message |-> req.message]

\* what checkHTTPS settles with: a response, or a rejection
HttpsOutcomes ==
  [kind : {"response"}, statusCode : {200, 404}, certificate : {"valid"},
   marker : {TRUE}] \cup
  [kind : {"response"}, statusCode : {200}, certificate : Certificates,
   marker : BOOLEAN] \cup
  [kind : {"error"}, message : {"Request timeout", "getaddrinfo ENOTFOUND"}]

\* what fs.existsSync('CNAME') and the comparison of the trimmed content
\* with CONFIG.domain can find
CnameStates == {"missing", "mismatch", "match"}
CnameExists(c)  == c # "missing"
CnameMatches(c) == c = "match"

\* verifyGitHubActions: the workflow file exists, can be read and names
\* every required component; a failing gh CLI is only logged
VerifyGitHubActions(workflowExists, readable, complete) ==
  workflowExists /\ readable /\ complete

\* the warnings verifyDomainAndHTTPS logs for a response with status 200
DomainWarnings(https) ==
  IF https.kind = "response" /\ https.statusCode = 200
  THEN {w \in {"SSL certificate is not valid for current date"} :
          https.certificate = "expired"} \cup
       {w \in {"Site content not found"} : ~https.marker}
  ELSE {}

\* variant: a warning fails the check
VerifyDomainAndHTTPSStrict(cnameExists, cnameMatches, https) ==
  /\ cnameExists
  /\ cnameMatches
  /\ https.kind = "response"
  /\ https.statusCode = 200
  /\ DomainWarnings(https) = {}

\* verifyDomainAndHTTPS: CNAME exists and matches, HTTPS answers 200; the
\* certificate's dates and the body's content are logged, not returned
VerifyDomainAndHTTPS(cnameExists, cnameMatches, https) ==
  /\ cnameExists
  /\ cnameMatches
  /\ https.kind = "response"
  /\ https.statusCode = 200

\* variant: a missing Theme Color fails the check as well
VerifySEOAndMetadataAllTags(https, found) ==
  /\ https.kind = "response"
  /\ https.statusCode = 200
  /\ \A m \in RequiredMeta \cup OptionalMeta : m \in found

\* verifySEOAndMetadata: page reachable and every required tag matched
VerifySEOAndMetadata(https, found) ==
  /\ https.kind = "response"
  /\ https.statusCode = 200
  /\ \A m \in RequiredMeta : m \in found

\* variant: a check that returned false is stored as SKIPPED
DeployCheckResultSkipped(name, ok) ==
  [name |-> name, status |-> IF ok THEN "PASSED" ELSE "SKIPPED"]

\* status: result ? 'PASSED' : 'FAILED'
DeployCheckResult(name, ok) ==
  [name |-> name, status |-> IF ok THEN "PASSED" ELSE "FAILED"]

\* ============================================================= control
\* process.exit(code) at the named call site
Exit(code, site) ==
  /\ pc' = "exited"
  /\ exitCode' = code
  /\ exitSite' = site

\* a wrapper's promise settles with r: the runner resumes after its await,
\* a script run directly continues in its own .then/.catch
Settle(name, recordAt, r) ==
  /\ ret' = r
  /\ outcome' = [outcome EXCEPT ![name] = r]
  /\ pc' = IF main = "integration" THEN recordAt
           ELSE IF r.kind = "throw" THEN "main_catch" ELSE "main_then"

\* variant: the runner takes the server to be running without probing it
CheckLocalServerAssumed(up) == TRUE

\* checkLocalServer(): true when the curl probe of localhost:8000 succeeds
CheckLocalServer(up) == up

AfterInstall ==
  IF runLocal THEN "lh_check" ELSE IF runDeployment THEN "dep_actions" ELSE "report"
\* variant: the deployment suite is left out after the local suites
AfterLocalSkipsDeployment == "report"

AfterLocal == IF runDeployment THEN "dep_actions" ELSE "report"

\* ----------------------------------------------------------- environment
\* the local server starts or stops while the run is in progress
ServerFlip ==
  /\ pc \notin {"exited"}
  /\ flips < MaxFlips
  /\ serverUp' = ~serverUp
  /\ flips' = flips + 1
  /\ UNCHANGED <<clock, configVars, uiVars, cname, http, pc, resultVars, ret, outcome, lhVars, browserResults,
                 deployResults, procFailed, fileVars, reportVars, exitVars>>

\* ------------------------------------------------- loading the modules
\* the statements at the top level of the modules a script loads, in the
\* order they run: each required module creates its own report directory
\* before the requiring script creates its own
SetupSites ==
  CASE main = "integration" -> <<"lighthouse-test.js:31", "browser-test.js:32",
                                 "deployment-test.js:28", "integration-test.js:31">>
    [] main = "lighthouse"  -> <<"lighthouse-test.js:31">>
    [] main = "browser"     -> <<"browser-test.js:32">>
    [] OTHER                -> <<"deployment-test.js:28">>

\* where the script's own function starts once the modules are loaded
FirstStep ==
  CASE main = "integration" -> "install"
    [] main = "lighthouse"  -> "lh_curl"
    [] main = "browser"     -> "br_curl"
    [] OTHER                -> "dep_actions"

\* an exception out of a top-level statement is uncaught: the process
\* ends with status 1 before any function of the script has been called
LoadModules ==
  /\ pc = "load"
  /\ \/ /\ pc' = FirstStep
        /\ UNCHANGED exitVars
     \/ \E i \in DOMAIN SetupSites : Exit(1, SetupSites[i])
  /\ UNCHANGED <<configVars, uiVars, cname, http, envVars, resultVars, ret, outcome, lhVars,
                 browserResults, deployResults, procFailed, fileVars, reportVars>>

\* ---------------------------------------------------- runIntegrationTests
\* installDependencies: each npm install may fail, the loop goes on
InstallDependencies ==
  /\ pc = "install"
  /\ \E failed \in SUBSET {"npm install lighthouse", "npm install @playwright/test"} :
       procFailed' = procFailed \cup failed
  /\ pc' = AfterInstall
  /\ UNCHANGED <<configVars, uiVars, cname, http, envVars, resultVars, ret, outcome, lhVars, browserResults,
                 deployResults, fileVars, reportVars, exitVars>>

\* if (!checkLocalServer()) record SKIPPED, else call the wrapper
RunnerCheck(name, callAt, skipTo) ==
  /\ IF ~CheckLocalServer(serverUp)
     THEN /\ results' = Assign(results, name, SkippedResult(name))
          /\ assignments' = assignments + 1
          /\ pc' = skipTo
     ELSE /\ UNCHANGED resultVars
          /\ pc' = callAt
  /\ UNCHANGED <<configVars, uiVars, cname, http, envVars, ret, outcome, lhVars, browserResults,
                 deployResults, procFailed, fileVars, reportVars, exitVars>>

\* the statement after the await: store the suite's result
RunnerRecord(name, next) ==
  /\ results' = Assign(results, name, SettledResult(name, ret))
  /\ assignments' = assignments + 1
  /\ ret' = NoRet
  /\ outcome' = outcome
  /\ scores' = NoScores
  /\ verdicts' = NoVerdicts
  /\ browserResults' = <<>>
  /\ deployResults' = <<>>
  /\ pc' = next
  \* the locals of verifyDomainAndHTTPS are gone once the suite has returned
  /\ cname' = "unread"
  /\ UNCHANGED <<configVars, uiVars, http, envVars, procFailed, fileVars, reportVars,
                 exitVars>>

\* Test 1: Lighthouse Performance Audit (Local)
CheckLighthouse ==
  /\ pc = "lh_check"
  /\ RunnerCheck("lighthouseAudit", "lh_curl", "br_check")

RecordLighthouse ==
  /\ pc = "lh_record"
  /\ RunnerRecord("lighthouseAudit", "br_check")

\* Test 2: Cross-Browser Compatibility (Local)
CheckBrowser ==
  /\ pc = "br_check"
  /\ RunnerCheck("browserTests", "br_curl", AfterLocal)

RecordBrowser ==
  /\ pc = "br_record"
  /\ RunnerRecord("browserTests", AfterLocal)

\* Test 3: GitHub Pages Deployment Verification
RecordDeployment ==
  /\ pc = "dep_record"
  /\ RunnerRecord("deploymentVerification", "report")

\* ----------------------------------------------------- runLighthouseAudit
\* the wrapper's own curl probe: on failure process.exit(1)
LighthouseProbe ==
  /\ pc = "lh_curl"
  /\ IF serverUp
     THEN /\ pc' = "lh_tool"
          /\ UNCHANGED <<exitVars, procFailed>>
     ELSE /\ Exit(1, "lighthouse-test.js:53")
          /\ procFailed' = procFailed \cup {"curl (lighthouse-test.js)"}
  /\ UNCHANGED <<configVars, uiVars, cname, http, envVars, resultVars, ret, outcome, lhVars, browserResults,
                 deployResults, fileVars, reportVars>>

\* execSync(lighthouseCmd): a failure is caught and the wrapper returns false
LighthouseTool ==
  /\ pc = "lh_tool"
  /\ \E ok \in BOOLEAN :
       IF ok
       THEN /\ pc' = "lh_parse"
            /\ written' = written \cup {"lighthouse-report.report.json",
                                        "lighthouse-report.report.html"}
            /\ disk' = WriteFile(WriteFile(disk, Stamped("lighthouse-report.report.json"),
                                           "lighthouse json"),
                                 Stamped("lighthouse-report.report.html"), "lighthouse html")
            /\ UNCHANGED <<ret, outcome, procFailed>>
       ELSE /\ Settle("lighthouseAudit", "lh_record", Value(FALSE))
            /\ procFailed' = procFailed \cup {"npx lighthouse"}
            /\ UNCHANGED fileVars
  /\ UNCHANGED <<configVars, uiVars, cname, http, envVars, resultVars, lhVars, browserResults,
                 deployResults, reportVars, exitVars>>

\* read and parse the JSON result, print the marks, return the AND
LighthouseEvaluate ==
  /\ pc = "lh_parse"
  /\ \/ \* readFileSync or JSON.parse throws: caught, return false
        /\ Settle("lighthouseAudit", "lh_record", Value(FALSE))
        /\ UNCHANGED lhVars
     \/ \E sc \in ScoreSets :
          /\ scores' = sc
          /\ verdicts' = CategoryVerdicts(sc, thresholds)
          /\ Settle("lighthouseAudit", "lh_record", Value(AllThresholdsMet(sc, thresholds)))
  /\ UNCHANGED <<configVars, uiVars, cname, http, envVars, resultVars, browserResults, deployResults,
                 procFailed, fileVars, reportVars, exitVars>>

\* variant: one passing browser is enough
SomePassed(res) == \E i \in DOMAIN res : res[i].status = "PASSED"

\* Object.values(results).every(status => status === 'PASSED')
AllPassed(res) == \A i \in DOMAIN res : res[i].status = "PASSED"

\* -------------------------------------------------------- runBrowserTests
\* the wrapper's own curl probe: on failure process.exit(1)
BrowserProbe ==
  /\ pc = "br_curl"
  /\ IF serverUp
     THEN /\ pc' = "br_gen"
          /\ UNCHANGED <<exitVars, procFailed>>
     ELSE /\ Exit(1, "browser-test.js:216")
          /\ procFailed' = procFailed \cup {"curl (browser-test.js)"}
  /\ UNCHANGED <<configVars, uiVars, cname, http, envVars, resultVars, ret, outcome, lhVars, browserResults,
                 deployResults, fileVars, reportVars>>

\* generatePlaywrightTest: a failing write is caught, the wrapper returns false
BrowserGenerate ==
  /\ pc = "br_gen"
  /\ \E ok \in BOOLEAN :
       IF ok
       THEN /\ written' = written \cup {"browser-tests.spec.js"}
            /\ disk' = WriteFile(disk, Fixed("browser-tests.spec.js"), "testScript")
            /\ pc' = "br_install"
            /\ UNCHANGED <<ret, outcome>>
       ELSE /\ Settle("browserTests", "br_record", Value(FALSE))
            /\ UNCHANGED fileVars
  /\ UNCHANGED <<configVars, uiVars, cname, http, envVars, resultVars, lhVars, browserResults,
                 deployResults, procFailed, reportVars, exitVars>>

\* npx playwright install: a failure is logged and the wrapper continues
BrowserInstall ==
  /\ pc = "br_install"
  /\ \E ok \in BOOLEAN :
       procFailed' = IF ok THEN procFailed
                     ELSE procFailed \cup {"npx playwright install"}
  /\ pc' = "br_run"
  /\ UNCHANGED <<configVars, uiVars, cname, http, envVars, resultVars, ret, outcome, lhVars, browserResults,
                 deployResults, fileVars, reportVars, exitVars>>

\* one iteration of for (const browser of CONFIG.browsers)
BrowserRun ==
  /\ pc = "br_run"
  /\ LET browser == CONFIG_browsers[Len(browserResults) + 1] IN
     \E ok \in BOOLEAN :
       /\ browserResults' =
            Append(browserResults,
                   [browser |-> browser, status |-> IF ok THEN "PASSED" ELSE "FAILED"])
       /\ procFailed' = IF ok THEN procFailed
                        ELSE procFailed \cup {"npx playwright test"}
  /\ pc' = IF Len(browserResults) + 1 = Len(CONFIG_browsers) THEN "br_summary" ELSE "br_run"
  /\ UNCHANGED <<configVars, uiVars, cname, http, envVars, resultVars, ret, outcome, lhVars, deployResults,
                 fileVars, reportVars, exitVars>>

\* write browser-test-summary.json, then return whether every browser passed
BrowserSummary ==
  /\ pc = "br_summary"
  /\ \E ok \in BOOLEAN :
       IF ok
       THEN /\ written' = written \cup {"browser-test-summary.json"}
            /\ disk' = WriteFile(disk, Fixed("browser-test-summary.json"), "summary")
            /\ Settle("browserTests", "br_record", Value(AllPassed(browserResults)))
       ELSE /\ Settle("browserTests", "br_record", Value(FALSE))
            /\ UNCHANGED fileVars
  /\ UNCHANGED <<configVars, uiVars, cname, http, envVars, resultVars, lhVars, browserResults,
                 deployResults, procFailed, reportVars, exitVars>>

\* ----------------------------------------------------- runDeploymentTests
DeployCheck(name, ok, next) ==
  /\ deployResults' = Assign(deployResults, name, DeployCheckResult(name, ok))
  /\ pc' = next
  /\ UNCHANGED <<configVars, uiVars, http, envVars, resultVars, ret, outcome, lhVars, browserResults,
                 fileVars, reportVars, exitVars>>

DeployGitHubActions ==
  /\ pc = "dep_actions"
  /\ \E workflowExists, readable, complete, ghOk \in BOOLEAN :
    /\ DeployCheck("githubActions",
                   VerifyGitHubActions(workflowExists, readable, complete),
                   "dep_domain")
    /\ procFailed' = IF workflowExists /\ readable /\ complete /\ ~ghOk
                     THEN procFailed \cup {"gh run list"} ELSE procFailed
    /\ UNCHANGED cname

DeployDomainHTTPS ==
  /\ pc = "dep_domain"
  /\ \E c \in CnameStates, https \in HttpsOutcomes :
    /\ cname' = c
    /\ DeployCheck("domainHTTPS",
                   VerifyDomainAndHTTPS(CnameExists(c), CnameMatches(c), https),
                   "dep_seo")
    /\ UNCHANGED procFailed

\* verifySEOAndMetadata reads the status and the body's tags only, so the
\* certificate and the site marker of its response are left at one value
DeploySEOMetadata ==
  /\ pc = "dep_seo"
  /\ \E https \in {o \in HttpsOutcomes : DomainWarnings(o) = {}}, found \in FoundSets :
    /\ DeployCheck("seoMetadata",
                   VerifySEOAndMetadata(https, found), "dep_report")
    /\ UNCHANGED <<procFailed, cname>>

\* -------------------------------------------- the checks, request by request
InFlight == http.state \in {"pending", "receiving"}
Settled  == http.state \in {"resolved", "rejected"}
AwaitPcs == {"dep_domain_await", "dep_seo_await"}

\* verifyDomainAndHTTPS up to its await: the CNAME checks return false
\* without a request, otherwise checkHTTPS(CONFIG.domain) is called
DomainStart ==
  /\ pc = "dep_domain"
  /\ \E c \in CnameStates :
       /\ cname' = c
       /\ IF CnameExists(c) /\ CnameMatches(c)
          THEN /\ http' = NewRequest
               /\ pc' = "dep_domain_await"
               /\ UNCHANGED deployResults
          ELSE /\ deployResults' =
                    Assign(deployResults, "domainHTTPS",
                           DeployCheckResult("domainHTTPS",
                             VerifyDomainAndHTTPS(CnameExists(c), CnameMatches(c),
                                                  Awaited(http))))
               /\ pc' = "dep_seo"
               /\ UNCHANGED http
  /\ UNCHANGED <<configVars, uiVars, envVars, resultVars, ret, outcome, lhVars, browserResults,
                 procFailed, fileVars, reportVars, exitVars>>

\* verifySEOAndMetadata up to its await
SeoStart ==
  /\ pc = "dep_seo"
  /\ http' = NewRequest
  /\ pc' = "dep_seo_await"
  /\ UNCHANGED <<configVars, uiVars, cname, envVars, resultVars, ret, outcome, lhVars, browserResults,
                 deployResults, procFailed, fileVars, reportVars, exitVars>>

HttpFrame ==
  UNCHANGED <<configVars, uiVars, cname, envVars, pc, resultVars, ret, outcome, lhVars, browserResults,
              deployResults, procFailed, fileVars, reportVars, exitVars>>

HttpResponse ==
  /\ pc \in AwaitPcs
  /\ http.state = "pending"
  /\ http.idle < TimeoutSeconds
  /\ \E statusCode \in {200, 404} : http' = OnResponse(http, statusCode)
  /\ HttpFrame

HttpData ==
  /\ pc \in AwaitPcs
  /\ http.state = "receiving"
  /\ http.idle < TimeoutSeconds
  /\ http.chunks < MaxChunks
  /\ http' = OnData(http)
  /\ HttpFrame

HttpEnd ==
  /\ pc \in AwaitPcs
  /\ http.state = "receiving"
  /\ http.idle < TimeoutSeconds
  /\ \E s \in Served : http' = OnEnd(http, s[1], s[2])
  /\ HttpFrame

\* the connection fails before a response: DNS, TCP or TLS error
HttpError ==
  /\ pc \in AwaitPcs
  /\ http.state = "pending"
  /\ http.idle < TimeoutSeconds
  /\ http' = OnError(http, "getaddrinfo ENOTFOUND")
  /\ HttpFrame

\* another second passes without activity on the socket
HttpIdle ==
  /\ pc \in AwaitPcs
  /\ InFlight
  /\ http.idle < TimeoutSeconds
  /\ http' = [http EXCEPT !.idle = @ + 1]
  /\ HttpFrame

\* the socket has been idle for options.timeout: 'timeout' is emitted
HttpTimeout ==
  /\ pc \in AwaitPcs
  /\ InFlight
  /\ http.idle = TimeoutSeconds
  /\ http' = OnTimeout(http)
  /\ HttpFrame

\* verifyDomainAndHTTPS after its await: a rejection lands in its catch
DomainSettle ==
  /\ pc = "dep_domain_await"
  /\ Settled
  /\ DeployCheck("domainHTTPS",
                 VerifyDomainAndHTTPS(CnameExists(cname), CnameMatches(cname), Awaited(http)),
                 "dep_seo")
  /\ UNCHANGED <<procFailed, cname>>

\* verifySEOAndMetadata after its await
SeoSettle ==
  /\ pc = "dep_seo_await"
  /\ Settled
  /\ DeployCheck("seoMetadata", VerifySEOAndMetadata(Awaited(http), http.page.found),
                 "dep_report")
  /\ UNCHANGED <<procFailed, cname>>

\* generateReport(results) is outside every try: a failing write rejects the
\* wrapper's promise; otherwise it resolves with summary.failed === 0
DeployReport ==
  /\ pc = "dep_report"
  /\ \/ /\ written' = written \cup {"deployment-test.json"}
        /\ disk' = WriteFile(disk, Stamped("deployment-test.json"), "report")
        /\ Settle("deploymentVerification", "dep_record", Value(CountStatus(deployResults, "FAILED") = 0))
     \/ \E msg \in WriteErrors :
          /\ Settle("deploymentVerification", "dep_record", Thrown(msg))
          /\ UNCHANGED fileVars
  /\ UNCHANGED <<configVars, uiVars, cname, http, envVars, resultVars, lhVars, browserResults,
                 deployResults, procFailed, reportVars, exitVars>>

\* ------------------------------------------- generateComprehensiveReport
\* builds the report, writes the JSON file, renders and writes the HTML
\* file; a failing write throws out of runIntegrationTests
GenerateReport ==
  /\ pc = "report"
  /\ LET rep == ComprehensiveReport(results) IN
     \/ /\ written' = written \cup {"integration-test-report.json",
                                    "integration-test-report.html"}
        /\ disk' = WriteFile(WriteFile(disk, Stamped("integration-test-report.json"),
                                       Stringify(rep)),
                             Stamped("integration-test-report.html"), HTMLReport(rep))
        /\ report' = rep
        /\ html' = HTMLReport(rep)
        /\ ret' = Value(rep.summary.failed = 0)
        /\ outcome' = outcome
        /\ pc' = "main_then"
     \/ \E msg \in WriteErrors, jsonWritten \in BOOLEAN :
          /\ written' = IF jsonWritten
                        THEN written \cup {"integration-test-report.json"}
                        ELSE written
          /\ disk' = IF jsonWritten
                     THEN WriteFile(disk, Stamped("integration-test-report.json"),
                                    Stringify(rep))
                     ELSE disk
          /\ ret' = Thrown(msg)
          /\ outcome' = outcome
          /\ pc' = "main_catch"
          /\ UNCHANGED reportVars
  /\ UNCHANGED <<configVars, uiVars, cname, http, envVars, resultVars, lhVars, browserResults,
                 deployResults, procFailed, exitVars>>

\* ----------------------------------------------- if (require.main === module)
ThenSite ==
  CASE main = "integration" -> "integration-test.js:435"
    [] main = "lighthouse"  -> "lighthouse-test.js:152"
    [] main = "browser"     -> "browser-test.js:296"
    [] OTHER                -> "deployment-test.js:440"

CatchSite ==
  CASE main = "integration" -> "integration-test.js:439"
    [] main = "lighthouse"  -> "lighthouse-test.js:156"
    [] main = "browser"     -> "browser-test.js:300"
    [] OTHER                -> "deployment-test.js:444"

\* .then(success => process.exit(success ? 0 : 1))
EntryThen ==
  /\ pc = "main_then"
  /\ Exit(IF ret.value THEN 0 ELSE 1, ThenSite)
  /\ UNCHANGED <<configVars, uiVars, cname, http, envVars, resultVars, ret, outcome, lhVars, browserResults,
                 deployResults, procFailed, fileVars, reportVars>>

\* .catch(error => process.exit(1))
EntryCatch ==
  /\ pc = "main_catch"
  /\ Exit(1, CatchSite)
  /\ UNCHANGED <<configVars, uiVars, cname, http, envVars, resultVars, ret, outcome, lhVars, browserResults,
                 deployResults, procFailed, fileVars, reportVars>>

\* ============================================================ run-tests.sh
\* the words run-tests.sh can be called with; --verbose is not an option
ShellOptions == {"--local-only", "--deployment-only", "--help", "--verbose"}

RECURSIVE ArgLists(_)
ArgLists(n) ==
  IF n = 0 THEN {<<>>}
  ELSE ArgLists(n - 1) \cup
       {Append(a, o) : a \in {b \in ArgLists(n - 1) : Len(b) = n - 1}, o \in ShellOptions}

\* the commands before the options are read: with set -e each failure ends
\* the script; "none": all of them succeed
Prerequisites == {"none", "node", "npm", "npm install", "package.json", "mkdir"}

\* the shell leaves with this status; the EXIT trap is set from line 148 on
ShellLeaves(s, status) == [s EXCEPT !.pc = "done", !.status = status]

\* after the optional blocks the script always runs node integration-test.js
AfterSuites(s) == "integration"

\* if [ "$DEPLOYMENT_TESTS" = true ]
AfterLocalTests(s) == IF s.deploymentTests THEN "deployment" ELSE AfterSuites(s)

\* if [ "$LOCAL_TESTS" = true ]
AfterOptions(s) == IF s.localTests THEN "start_server" ELSE AfterLocalTests(s)

\* where the script goes on when the node process it waited for has ended
AfterScript(s) ==
  CASE s.running = "lighthouse" -> "browser"
    [] s.running = "browser"    -> AfterLocalTests(s)
    [] s.running = "deployment" -> AfterSuites(s)
    [] OTHER                    -> "summary"

\* lines 26-64: node, npm, npm install, package.json, the report directories
ShellPrerequisites ==
  /\ sh.pc = "prereq"
  /\ \E failed \in Prerequisites :
       sh' = IF failed = "none"
             THEN [sh EXCEPT !.pc = "options", !.localTests = TRUE,
                             !.deploymentTests = TRUE]
             ELSE ShellLeaves(sh, 1)
  /\ UNCHANGED <<configVars, pageVars, rv, cname, http, envVars, pc, resultVars, ret,
                 outcome, lhVars, browserResults, deployResults, procFailed, fileVars,
                 reportVars, exitVars>>

\* one round of while [[ $# -gt 0 ]]; do case $1 in ... esac; done
ShellOption ==
  /\ sh.pc = "options"
  /\ sh' =
       IF sh.args = <<>>
       THEN [sh EXCEPT !.pc = AfterOptions(sh), !.overallSuccess = TRUE]
       ELSE CASE Head(sh.args) = "--local-only" ->
                   [sh EXCEPT !.deploymentTests = FALSE, !.args = Tail(@)]
              [] Head(sh.args) = "--deployment-only" ->
                   [sh EXCEPT !.localTests = FALSE, !.args = Tail(@)]
              [] Head(sh.args) = "--help" -> ShellLeaves(sh, 0)
              [] OTHER -> ShellLeaves(sh, 1)
  /\ UNCHANGED <<configVars, pageVars, rv, cname, http, envVars, pc, resultVars, ret,
                 outcome, lhVars, browserResults, deployResults, procFailed, fileVars,
                 reportVars, exitVars>>

\* start_server: a server on port 8000 is killed, npm run serve is started
\* and polled ten times
ShellStartServer ==
  /\ sh.pc = "start_server"
  /\ \E started \in BOOLEAN :
       /\ serverUp' = started
       /\ sh' = IF started
                THEN [sh EXCEPT !.pc = "lighthouse"]
                ELSE [sh EXCEPT !.pc = AfterLocalTests(sh), !.overallSuccess = FALSE]
  /\ UNCHANGED <<configVars, pageVars, rv, cname, http, flips, clock, pc, resultVars, ret,
                 outcome, lhVars, browserResults, deployResults, procFailed, fileVars,
                 reportVars, exitVars>>

\* if node <script>.js: a new node process runs the script
ShellNode ==
  /\ sh.pc \in {"lighthouse", "browser", "deployment", "integration"}
  /\ sh' = [sh EXCEPT !.pc = "wait", !.running = sh.pc]
  /\ main' = sh.pc
  /\ pc' = "load"
  /\ clock' = clock + 1
  /\ results' = <<>>
  /\ assignments' = 0
  /\ ret' = NoRet
  /\ outcome' = [name \in SuiteSet |-> NoRet]
  /\ scores' = NoScores
  /\ verdicts' = NoVerdicts
  /\ browserResults' = <<>>
  /\ deployResults' = <<>>
  /\ procFailed' = {}
  /\ written' = {}
  /\ http' = NoRequest
  /\ cname' = "unread"
  /\ report' = NoReport
  /\ html' = NoHtml
  /\ exitCode' = -1
  /\ exitSite' = "none"
  /\ UNCHANGED <<runLocal, runDeployment, thresholds, pageVars, rv, serverUp, flips, disk>>

\* the node process has ended: then ... else OVERALL_SUCCESS=false fi
ShellNodeEnded ==
  /\ sh.pc = "wait"
  /\ pc = "exited"
  /\ sh' = [sh EXCEPT !.pc = AfterScript(sh),
                      !.overallSuccess = @ /\ exitCode = 0,
                      !.ran = @ \cup {sh.running}]
  /\ UNCHANGED <<configVars, pageVars, rv, cname, http, envVars, pc, resultVars, ret,
                 outcome, lhVars, browserResults, deployResults, procFailed, fileVars,
                 reportVars, exitVars>>

\* the final summary and exit; the EXIT trap stops the server on port 8000
ShellSummary ==
  /\ sh.pc = "summary"
  /\ sh' = ShellLeaves(sh, IF sh.overallSuccess THEN 0 ELSE 1)
  /\ serverUp' = FALSE
  /\ UNCHANGED <<configVars, pageVars, rv, cname, http, flips, clock, pc, resultVars, ret,
                 outcome, lhVars, browserResults, deployResults, procFailed, fileVars,
                 reportVars, exitVars>>

\* ============================================================ the page
\* every variable of the test scripts: the page's handlers leave them alone
scriptVars == <<configVars, cname, http, envVars, pc, resultVars, ret, outcome, lhVars,
                browserResults, deployResults, procFailed, fileVars, reportVars, exitVars>>

\* ------------------------------------------------------- the hero image
\* a URL as its path segments below the page's directory
WebP     == <<"assets", "hero.webp">>
Png      == <<"assets", "hero.png">>
RootPng  == <<"hero.png">>

\* the src the hero image can start with
HeroSources == {WebP, Png, RootPng}

\* img.src.includes('hero.webp'), img.src.includes('assets/')
IncludesHeroWebp(src) == src[Len(src)] = "hero.webp"
IncludesAssets(src)   == \E i \in 1..(Len(src) - 1) : src[i] = "assets"

\* img.src.split('/').pop()
Filename(src) == <<src[Len(src)]>>

\* img.src = url: the browser starts to load url
SetSrc(i, url) ==
  [i EXCEPT !.src = url, !.status = "loading", !.requested = Append(@, url)]

\* lines 21-43: hide the image and its picture, show the SVG fallback
ShowFallback(i) ==
  [i EXCEPT !.display = "none", !.pictureDisplay = "none", !.fallback = "block",
            !.ariaLabel = TRUE, !.status = "broken"]

\* variant: the retry flag is never set
HandleImageErrorKeepsRetrying(i) ==
  IF IncludesHeroWebp(i.src) THEN SetSrc(i, Png)
  ELSE IF IncludesAssets(i.src) THEN SetSrc(i, Filename(i.src))
  ELSE ShowFallback(i)

\* handleImageError(img)
HandleImageError(i) ==
  IF ~i.retryAttempted
  THEN LET j == [i EXCEPT !.retryAttempted = TRUE] IN
       IF IncludesHeroWebp(j.src) THEN SetSrc(j, Png)
       ELSE IF IncludesAssets(j.src) THEN SetSrc(j, Filename(j.src))
       ELSE ShowFallback(j)
  ELSE ShowFallback(i)

\* handleImageLoad(img)
HandleImageLoad(i) ==
  [i EXCEPT !.fallback = "none", !.loaded = TRUE, !.status = "complete"]

\* the image as the parsed document holds it, before any script has run
NewImage(src) ==
  [src |-> src, status |-> "loading", requested |-> <<src>>, listening |-> FALSE,
   retryAttempted |-> FALSE, display |-> "", pictureDisplay |-> "",
   fallback |-> "none", ariaLabel |-> FALSE, loaded |-> FALSE]

\* the load of the current source fails: the 'error' event is dispatched
\* to the listener of line 616, if it has been added by now
ImageError ==
  /\ img.status = "loading"
  /\ img' = IF img.listening THEN HandleImageError(img)
            ELSE [img EXCEPT !.status = "broken"]
  /\ UNCHANGED <<scriptVars, sh, win, anim, rv>>

\* the load of the current source succeeds: the 'load' event
ImageLoad ==
  /\ img.status = "loading"
  /\ img' = IF img.listening THEN HandleImageLoad(img)
            ELSE [img EXCEPT !.status = "complete"]
  /\ UNCHANGED <<scriptVars, sh, win, anim, rv>>

\* ------------------------------------------- PhoenixAnimationController
\* window.innerWidth at both sides of each limit detectPerformanceMode uses
Widths == {320, 321, 767, 768, 1023, 1024}

\* navigator.deviceMemory in GB; 0: the property is not available
DeviceMemories == {0, 1, 2, 4, 8}

\* connection.effectiveType; "none": navigator.connection is not available
EffectiveTypes == {"none", "slow-2g", "2g", "3g", "4g"}

\* prefersReducedMotion || prefersHighContrast || forcedColors
AccessibilityPreference(w) == w.reducedMotion \/ w.highContrast \/ w.forcedColors

\* variant: a missing navigator.deviceMemory counts as 8 GB
MemoryDefaultEight(w) == IF w.deviceMemory = 0 THEN 8 ELSE w.deviceMemory

\* navigator.deviceMemory || 4
Memory(w) == IF w.deviceMemory = 0 THEN 4 ELSE w.deviceMemory

\* lines 163-177: the mode for the screen, the memory and the connection
ModeForDevice(w) ==
  LET isMobile      == w.innerWidth <= 767
      isSmallMobile == w.innerWidth <= 320
      isTablet      == w.innerWidth >= 768 /\ w.innerWidth <= 1023
  IN  IF isSmallMobile \/ Memory(w) < 2 \/ w.effectiveType = "slow-2g" THEN "minimal"
      ELSE IF isMobile \/ Memory(w) < 4 \/ w.effectiveType = "3g" THEN "low"
      ELSE IF isTablet \/ Memory(w) < 6 \/ w.effectiveType = "4g" THEN "medium"
      ELSE "high"

\* variant: the listeners are added only once
DetectPerformanceModeListensOnce(a, w) ==
  IF AccessibilityPreference(w)
  THEN [a EXCEPT !.performanceMode = "minimal",
                 !.motionListeners = @ + 1, !.contrastListeners = @ + 1]
  ELSE [a EXCEPT !.performanceMode = ModeForDevice(w), !.applied = ModeForDevice(w),
                 !.resizeListeners = 1, !.orientationListeners = 1]

\* detectPerformanceMode(): with an accessibility preference 'minimal' and
\* setupAccessibilityListeners(); otherwise the mode for the device,
\* applyPerformanceOptimizations() and setupResponsiveListeners()
DetectPerformanceMode(a, w) ==
  IF AccessibilityPreference(w)
  THEN [a EXCEPT !.performanceMode = "minimal",
                 !.motionListeners = @ + 1, !.contrastListeners = @ + 1]
  ELSE [a EXCEPT !.performanceMode = ModeForDevice(w), !.applied = ModeForDevice(w),
                 !.resizeListeners = @ + 1, !.orientationListeners = @ + 1]

\* n listeners of one event call detectPerformanceMode one after another
RECURSIVE DetectTimes(_, _, _)
DetectTimes(a, w, n) ==
  IF n = 0 THEN a ELSE DetectTimes(DetectPerformanceMode(a, w), w, n - 1)

\* applyPerformanceOptimizations(): the durations of the current mode
ApplyPerformanceOptimizations(a) == [a EXCEPT !.applied = a.performanceMode]

\* new PhoenixAnimationController(): no listener and no timer yet
NewController ==
  [performanceMode |-> "high", applied |-> "none", resizeListeners |-> 0,
   orientationListeners |-> 0, motionListeners |-> 0, contrastListeners |-> 0,
   resizeTimeouts |-> 0, orientationTimeouts |-> 0]

\* the listeners a further call of detectPerformanceMode would leave
ListenersAfter(a, w, n) ==
  IF AccessibilityPreference(w) THEN a.motionListeners + n ELSE a.resizeListeners + n

\* the DOMContentLoaded handler up to await checkWebPSupport()
DomContentLoaded ==
  /\ win.pc = "parsed"
  /\ win' = [win EXCEPT !.pc = "await_webp"]
  /\ UNCHANGED <<scriptVars, sh, img, anim, rv>>

\* lines 604-638: the image's listeners are added, the controller is
\* created and init() calls detectPerformanceMode()
PageReady ==
  /\ win.pc = "await_webp"
  /\ win' = [win EXCEPT !.pc = "ready"]
  /\ img' = [img EXCEPT !.listening = TRUE]
  /\ anim' = DetectPerformanceMode(NewController, win)
  /\ UNCHANGED <<scriptVars, sh, rv>>

\* the window is resized: every resize listener clears its own timeout
\* and sets it again
WindowResize ==
  /\ win.pc = "ready"
  /\ \E w \in Widths \ {win.innerWidth} : win' = [win EXCEPT !.innerWidth = w]
  /\ anim' = [anim EXCEPT !.resizeTimeouts = anim.resizeListeners]
  /\ UNCHANGED <<scriptVars, sh, img, rv>>

\* 250 ms after the last resize one listener's timeout runs
ResizeTimeout ==
  /\ win.pc = "ready"
  /\ anim.resizeTimeouts > 0
  /\ ListenersAfter(anim, win, 1) <= MaxListeners
  /\ LET a == DetectPerformanceMode(anim, win) IN
       anim' = [(IF a.performanceMode # anim.performanceMode
                 THEN ApplyPerformanceOptimizations(a) ELSE a)
                EXCEPT !.resizeTimeouts = @ - 1]
  /\ UNCHANGED <<scriptVars, sh, img, win, rv>>

\* the device is turned: every orientationchange listener sets a timeout
OrientationChange ==
  /\ win.pc = "ready"
  /\ anim.orientationListeners > 0
  /\ anim.orientationTimeouts + anim.orientationListeners <= MaxListeners
  /\ anim' = [anim EXCEPT !.orientationTimeouts = @ + anim.orientationListeners]
  /\ UNCHANGED <<scriptVars, sh, img, win, rv>>

\* 100 ms after an orientation change one listener's timeout runs
OrientationTimeout ==
  /\ win.pc = "ready"
  /\ anim.orientationTimeouts > 0
  /\ ListenersAfter(anim, win, 1) <= MaxListeners
  /\ anim' = [ApplyPerformanceOptimizations(DetectPerformanceMode(anim, win))
                EXCEPT !.orientationTimeouts = @ - 1]
  /\ UNCHANGED <<scriptVars, sh, img, win, rv>>

\* the user switches prefers-reduced-motion: every listener of the query
\* sets 'minimal' when it matches and calls detectPerformanceMode() when not
ReducedMotionChange ==
  /\ win.pc = "ready"
  /\ LET w == [win EXCEPT !.reducedMotion = ~@] IN
       /\ win' = w
       /\ ListenersAfter(anim, w, anim.motionListeners) <= MaxListeners
       /\ anim' = IF anim.motionListeners = 0 THEN anim
                  ELSE IF w.reducedMotion THEN [anim EXCEPT !.performanceMode = "minimal"]
                  ELSE DetectTimes(anim, w, anim.motionListeners)
  /\ UNCHANGED <<scriptVars, sh, img, rv>>

\* the user switches prefers-contrast: high
HighContrastChange ==
  /\ win.pc = "ready"
  /\ LET w == [win EXCEPT !.highContrast = ~@] IN
       /\ win' = w
       /\ ListenersAfter(anim, w, anim.contrastListeners) <= MaxListeners
       /\ anim' = IF anim.contrastListeners = 0 THEN anim
                  ELSE IF w.highContrast THEN [anim EXCEPT !.performanceMode = "minimal"]
                  ELSE DetectTimes(anim, w, anim.contrastListeners)
  /\ UNCHANGED <<scriptVars, sh, img, rv>>

\* ================================================= verify-responsive.js
\* the width of each entry of the breakpoints array, in its order
Breakpoints == <<320, 768, 1024, 1440>>

\* variant: every breakpoint expects 4:3
ExpectedRatioAlwaysFourThirds(width) == <<4, 3>>

\* the aspect ratio testLayoutAtBreakpoint expects for a breakpoint width
ExpectedRatio(width) ==
  IF width <= 320 THEN <<4, 3>>
  ELSE IF width <= 767 THEN <<4, 3>>
  ELSE IF width <= 1023 THEN <<16, 10>>
  ELSE <<16, 9>>

\* Math.abs(plateRect.width / plateRect.height - ratio) > 0.1 in double
\* arithmetic: 0/0 is NaN and no comparison with NaN is true, w/0 is
\* Infinity; otherwise the doubles agree with the exact quotients for
\* every rectangle below 40 x 40 except at w/h = 3/2, where
\* 16/10 - 3/2 evaluates to 0.10000000000000009
RatioOff(w, h, ratio) ==
  IF h = 0 THEN w # 0
  ELSE LET d == w * ratio[2] - ratio[1] * h IN
       \/ 10 * (IF d < 0 THEN -d ELSE d) > ratio[2] * h
       \/ (ratio = <<16, 10>> /\ 2 * w = 3 * h)

\* testLayoutAtBreakpoint(breakpoint).passed
TestLayoutAtBreakpoint(dom, width) ==
  /\ dom.plate /\ dom.heroInner /\ dom.nav
  /\ ~RatioOff(dom.plateWidth, dom.plateHeight, ExpectedRatio(width))

\* Math.round((passedElements / totalElements) * 100); -1 stands for NaN
PassRate(passed, total) == IF total = 0 THEN -1 ELSE MathRound(100 * passed, total)

\* the pages the script can be run on
Documents ==
  [plate : {TRUE}, heroInner : {TRUE}, nav : BOOLEAN,
   plateWidth : 0..MaxPlateWidth, plateHeight : 0..MaxPlateHeight] \cup
  [plate : {FALSE}, heroInner : BOOLEAN, nav : {TRUE}, plateWidth : {0}, plateHeight : {0}]

\* new ResponsiveVerification(): this.results and the document it reads
NewVerification(dom) ==
  [pc |-> "testBreakpoints", dom |-> dom, breakpoints |-> <<>>, passRate |-> -1,
   animations |-> FALSE, accessibility |-> FALSE, passedTests |-> 0, totalTests |-> 0,
   overallScore |-> 0, verdict |-> "none"]

rvFrame == UNCHANGED <<scriptVars, sh, pageVars>>

\* testBreakpoints(): the loop has no await and nothing resizes the
\* viewport: each entry is tested against the document as it is
TestBreakpoints ==
  /\ rv.pc = "testBreakpoints"
  /\ rv' = [rv EXCEPT !.pc = "testTouchTargets",
                      !.breakpoints = [i \in DOMAIN Breakpoints |->
                                         TestLayoutAtBreakpoint(rv.dom, Breakpoints[i])]]
  /\ rvFrame

\* testTouchTargets(): total visible interactive elements, passed of them
\* at least 44 x 44
TestTouchTargets ==
  /\ rv.pc = "testTouchTargets"
  /\ \E total \in 0..MaxTargets : \E passed \in 0..total :
       rv' = [rv EXCEPT !.pc = "testAnimations", !.passRate = PassRate(passed, total)]
  /\ rvFrame

\* testAnimations(): without a plate failed; otherwise every test that
\* applies to the window's width must pass, and none applies to a wide one
TestAnimations ==
  /\ rv.pc = "testAnimations"
  /\ \E applies, optimized \in BOOLEAN :
       rv' = [rv EXCEPT !.pc = "testAccessibility",
                        !.animations = rv.dom.plate /\ (applies => optimized)]
  /\ rvFrame

\* testAccessibility(): skip link, ARIA attributes, focusable elements and
\* at least four semantic elements
TestAccessibility ==
  /\ rv.pc = "testAccessibility"
  /\ \E skipLink, aria, focusable, semantic \in BOOLEAN :
       rv' = [rv EXCEPT !.pc = "generateReport",
                        !.accessibility = skipLink /\ aria /\ focusable /\ semantic]
  /\ rvFrame

\* generateReport(): the overall score and its verdict
GenerateResponsiveReport ==
  /\ rv.pc = "generateReport"
  /\ LET breakpointsPassed == Cardinality({i \in DOMAIN rv.breakpoints : rv.breakpoints[i]})
         totalTests  == Len(rv.breakpoints) + 1 + 1 + 1
         passedTests == breakpointsPassed + (IF rv.passRate >= 90 THEN 1 ELSE 0)
                          + (IF rv.animations THEN 1 ELSE 0)
                          + (IF rv.accessibility THEN 1 ELSE 0)
         overallScore == MathRound(100 * passedTests, totalTests)
     IN rv' = [rv EXCEPT !.pc = "done", !.passedTests = passedTests,
                         !.totalTests = totalTests, !.overallScore = overallScore,
                         !.verdict = IF overallScore >= 90 THEN "Excellent"
                                     ELSE IF overallScore >= 75 THEN "Good"
                                     ELSE "Needs improvement"]
  /\ rvFrame

\* ============================================================ behaviours
InitProcess ==
  /\ flips = 0
  /\ ret = NoRet
  /\ outcome = [name \in SuiteSet |-> NoRet]
  /\ scores = NoScores
  /\ verdicts = NoVerdicts
  /\ browserResults = <<>>
  /\ deployResults = <<>>
  /\ procFailed = {}
  /\ written = {}
  /\ assignments = 0
  /\ disk = NoFiles
  /\ clock = 0
  /\ http = NoRequest
  /\ cname = "unread"
  /\ report = NoReport
  /\ html = NoHtml
  /\ exitCode = -1
  /\ exitSite = "none"

\* a test script is run from the command line: no shell script, no page
InitCommon ==
  /\ InitProcess
  /\ sh = NotStarted
  /\ img = NotStarted
  /\ win = NotStarted
  /\ anim = NotStarted
  /\ rv = NotStarted

\* node integration-test.js; the exported CONFIG lets a caller switch the
\* local and the deployment suites off
Init ==
  /\ main = "integration"
  /\ runLocal \in BOOLEAN
  /\ runDeployment \in BOOLEAN
  /\ thresholds = CONFIG_thresholds
  /\ serverUp \in BOOLEAN
  /\ pc = "load"
  /\ results = <<>>
  /\ InitCommon

Next ==
  \/ ServerFlip
  \/ LoadModules
  \/ InstallDependencies
  \/ CheckLighthouse
  \/ LighthouseProbe
  \/ LighthouseTool
  \/ LighthouseEvaluate
  \/ RecordLighthouse
  \/ CheckBrowser
  \/ BrowserProbe
  \/ BrowserGenerate
  \/ BrowserInstall
  \/ BrowserRun
  \/ BrowserSummary
  \/ RecordBrowser
  \/ DeployGitHubActions
  \/ DeployDomainHTTPS
  \/ DeploySEOMetadata
  \/ DeployReport
  \/ RecordDeployment
  \/ GenerateReport
  \/ EntryThen
  \/ EntryCatch

Spec == Init /\ [][Next]_vars

\* node lighthouse-test.js against any threshold configuration
InitAudit ==
  /\ main = "lighthouse"
  /\ runLocal = TRUE
  /\ runDeployment = TRUE
  /\ thresholds \in ThresholdConfigs
  /\ serverUp \in BOOLEAN
  /\ pc = "lh_curl"
  /\ results = <<>>
  /\ InitCommon

NextAudit ==
  \/ ServerFlip
  \/ LighthouseProbe
  \/ LighthouseTool
  \/ LighthouseEvaluate
  \/ EntryThen

SpecAudit == InitAudit /\ [][NextAudit]_vars

\* generateComprehensiveReport applied to any collection of suite results
Statuses == {"PASSED", "FAILED", "SKIPPED"}

SuiteResults(i) ==
  [name : {ToString(i)}, status : Statuses, description : {"description"},
   error : {Undefined, "timeout"}, details : {Undefined, "details"}]

RECURSIVE CollectionsOfLength(_)
CollectionsOfLength(n) ==
  IF n = 0 THEN {<<>>}
  ELSE {Append(res, r) : res \in CollectionsOfLength(n - 1), r \in SuiteResults(n)}

ResultCollections == UNION {CollectionsOfLength(n) : n \in 0..MaxResults}

InitReport ==
  /\ main = "integration"
  /\ runLocal = TRUE
  /\ runDeployment = TRUE
  /\ thresholds = CONFIG_thresholds
  /\ serverUp \in BOOLEAN
  /\ pc = "report"
  /\ results \in ResultCollections
  /\ InitCommon

NextReport ==
  \/ GenerateReport
  \/ EntryThen
  \/ EntryCatch

SpecReport == InitReport /\ [][NextReport]_vars

\* the runner's recording statements, applied to any name in any order
RecordableOutcomes ==
  {Value(TRUE), Value(FALSE)} \cup {Thrown(msg) : msg \in WriteErrors}

InitRecord ==
  /\ main = "integration"
  /\ runLocal = TRUE
  /\ runDeployment = TRUE
  /\ thresholds = CONFIG_thresholds
  /\ serverUp \in BOOLEAN
  /\ pc = "record"
  /\ results = <<>>
  /\ InitCommon

\* results.<name> = { status: 'SKIPPED', ... }
RecordSkipped ==
  /\ pc = "record"
  /\ assignments < MaxAssignments
  /\ \E name \in SuiteSet :
       results' = Assign(results, name, SkippedResult(name))
  /\ assignments' = assignments + 1
  /\ UNCHANGED <<configVars, uiVars, cname, http, envVars, pc, ret, outcome, lhVars, browserResults,
                 deployResults, procFailed, fileVars, reportVars, exitVars>>

\* results.<name> = { status: success ? 'PASSED' : 'FAILED', ... } and the
\* assignment of the catch branch
RecordSettled ==
  /\ pc = "record"
  /\ assignments < MaxAssignments
  /\ \E name \in SuiteSet, r \in RecordableOutcomes :
       results' = Assign(results, name, SettledResult(name, r))
  /\ assignments' = assignments + 1
  /\ UNCHANGED <<configVars, uiVars, cname, http, envVars, pc, ret, outcome, lhVars, browserResults,
                 deployResults, procFailed, fileVars, reportVars, exitVars>>

\* generateComprehensiveReport(results) follows the last assignment
FinishRecording ==
  /\ pc = "record"
  /\ pc' = "report"
  /\ UNCHANGED <<configVars, uiVars, cname, http, envVars, resultVars, ret, outcome, lhVars,
                 browserResults, deployResults, procFailed, fileVars, reportVars,
                 exitVars>>

NextRecord ==
  \/ RecordSkipped
  \/ RecordSettled
  \/ FinishRecording
  \/ GenerateReport
  \/ EntryThen
  \/ EntryCatch

SpecRecord == InitRecord /\ [][NextRecord]_vars

\* the results the runner's recording statements can leave behind: the
\* first k suites in order, each with one of its object literals
RECURSIVE RunnerCollectionsOfLength(_)
RunnerCollectionsOfLength(n) ==
  IF n = 0 THEN {<<>>}
  ELSE {Append(c, r) :
          c \in RunnerCollectionsOfLength(n - 1),
          r \in {SkippedResult(SuiteNames[n])} \cup
                {SettledResult(SuiteNames[n], o) : o \in RecordableOutcomes}}

RunnerCollections ==
  UNION {RunnerCollectionsOfLength(n) : n \in 0..Len(SuiteNames)}

\* generateComprehensiveReport called again, later, with the same results
InitRegenerate ==
  /\ main = "integration"
  /\ runLocal = TRUE
  /\ runDeployment = TRUE
  /\ thresholds = CONFIG_thresholds
  /\ serverUp = TRUE
  /\ pc = "report"
  /\ results \in RunnerCollections
  /\ InitCommon

Regenerate ==
  /\ pc = "exited"
  /\ clock < MaxRuns
  /\ clock' = clock + 1
  /\ pc' = "report"
  /\ ret' = NoRet
  /\ report' = NoReport
  /\ html' = NoHtml
  /\ exitCode' = -1
  /\ exitSite' = "none"
  /\ written' = {}
  /\ UNCHANGED <<configVars, uiVars, cname, http, serverUp, flips, resultVars, outcome, lhVars,
                 browserResults, deployResults, procFailed, disk>>

NextRegenerate ==
  \/ GenerateReport
  \/ EntryThen
  \/ EntryCatch
  \/ Regenerate

SpecRegenerate == InitRegenerate /\ [][NextRegenerate]_vars

\* the three suite scripts run directly, one run after another, against
\* report directories that keep what earlier runs wrote
Scripts == {"lighthouse", "browser", "deployment"}

InitRuns ==
  /\ main \in Scripts
  /\ runLocal = TRUE
  /\ runDeployment = TRUE
  /\ thresholds = CONFIG_thresholds
  /\ serverUp \in BOOLEAN
  /\ pc = "load"
  /\ results = <<>>
  /\ InitCommon

\* the process has ended; later, one of the scripts is started again
RunAgain ==
  /\ pc = "exited"
  /\ clock < MaxRuns
  /\ clock' = clock + 1
  /\ main' \in Scripts
  /\ serverUp' \in BOOLEAN
  /\ flips' = 0
  /\ pc' = "load"
  /\ ret' = NoRet
  /\ outcome' = [name \in SuiteSet |-> NoRet]
  /\ scores' = NoScores
  /\ verdicts' = NoVerdicts
  /\ browserResults' = <<>>
  /\ deployResults' = <<>>
  /\ procFailed' = {}
  /\ written' = {}
  /\ exitCode' = -1
  /\ exitSite' = "none"
  /\ cname' = "unread"
  /\ UNCHANGED <<runLocal, runDeployment, thresholds, uiVars, http, resultVars,
                 reportVars, disk>>

NextRuns ==
  \/ ServerFlip
  \/ LoadModules
  \/ LighthouseProbe
  \/ LighthouseTool
  \/ LighthouseEvaluate
  \/ BrowserProbe
  \/ BrowserGenerate
  \/ BrowserInstall
  \/ BrowserRun
  \/ BrowserSummary
  \/ DeployGitHubActions
  \/ DeployDomainHTTPS
  \/ DeploySEOMetadata
  \/ DeployReport
  \/ EntryThen
  \/ EntryCatch
  \/ RunAgain

SpecRuns == InitRuns /\ [][NextRuns]_vars

\* node deployment-test.js, its two requests followed event by event
InitDeploy ==
  /\ main = "deployment"
  /\ runLocal = TRUE
  /\ runDeployment = TRUE
  /\ thresholds = CONFIG_thresholds
  /\ serverUp = TRUE
  /\ pc = "load"
  /\ results = <<>>
  /\ InitCommon

NextDeploy ==
  \/ LoadModules
  \/ DeployGitHubActions
  \/ DomainStart
  \/ SeoStart
  \/ HttpResponse
  \/ HttpData
  \/ HttpEnd
  \/ HttpError
  \/ HttpIdle
  \/ HttpTimeout
  \/ DomainSettle
  \/ SeoSettle
  \/ DeployReport
  \/ EntryThen
  \/ EntryCatch

SpecDeploy == InitDeploy /\ [][NextDeploy]_vars

\* Node's event loop runs every callback that is ready and its timers
\* fire: the script never stops while a step is possible
SpecDeployLive == SpecDeploy /\ WF_vars(NextDeploy)

\* ============================================================ properties
Names(res) == [i \in DOMAIN res |-> res[i].name]
Recorded(name) == \E i \in DOMAIN results : results[i].name = name
ResultOf(name) == results[CHOOSE i \in DOMAIN results : results[i].name = name]

\* the suites the configuration enables, in the order of the source
EnabledSuites ==
  (IF runLocal THEN <<"lighthouseAudit", "browserTests">> ELSE <<>>) \o
  (IF runDeployment THEN <<"deploymentVerification">> ELSE <<>>)

\* external invocations made inside a suite wrapper
SuiteInvocations ==
  {"curl (lighthouse-test.js)", "npx lighthouse", "curl (browser-test.js)",
   "npx playwright install", "npx playwright test", "gh run list"}

WrapperExitSites == {"lighthouse-test.js:53", "browser-test.js:216"}

\* the runner has left its last suite
SuitesDone ==
  \/ pc \in {"report", "main_then", "main_catch"}
  \/ pc = "exited" /\ exitSite \notin WrapperExitSites

\* ---------------------------------------------------------------- C1
\* C1: a failing external process invocation inside a suite never aborts
\* the run: when the process has ended after such a failure (and no report
\* file write failed), every enabled suite is recorded and the comprehensive
\* report was generated.
C1_FailedInvocationNeverAborts ==
  (/\ pc = "exited"
   /\ procFailed \cap SuiteInvocations # {}
   /\ exitSite # "integration-test.js:439")
  => (Names(results) = EnabledSuites /\ report.generated)

\* ---------------------------------------------------------------- C2
\* C2: with all suites enabled and every wrapper called (the server answered
\* both of the runner's probes), if a wrapper rejected then once the runner
\* is past its last suite the results hold exactly three entries, the
\* rejected suite is FAILED with error set to the exception's message, and
\* the other suites are PASSED or FAILED as their wrapper resolved.
C2_ThrowingSuiteIsRecorded ==
  (/\ SuitesDone
   /\ runLocal /\ runDeployment
   /\ \A name \in SuiteSet : outcome[name].kind # "none"
   /\ \E name \in SuiteSet : outcome[name].kind = "throw")
  => /\ Len(results) = 3
     /\ \A name \in SuiteSet :
          /\ Recorded(name)
          /\ IF outcome[name].kind = "throw"
             THEN /\ ResultOf(name).status = "FAILED"
                  /\ ResultOf(name).error = outcome[name].message
             ELSE /\ ResultOf(name).status =
                       (IF outcome[name].value THEN "PASSED" ELSE "FAILED")
                  /\ ResultOf(name).error = Undefined

C2_Witness ==
  /\ pc = "exited"
  /\ outcome["deploymentVerification"].kind = "throw"
  /\ outcome["lighthouseAudit"] = Value(TRUE)
  /\ outcome["browserTests"] = Value(FALSE)
  /\ Len(results) = 3

\* ---------------------------------------------------------------- C3
\* C3 as stated: the entry point exits 0 if and only if no recorded suite
\* has status FAILED, and 1 otherwise.
C3_ExitZeroIffNoFailed ==
  pc = "exited" =>
    /\ exitCode \in {0, 1}
    /\ exitCode = 0 <=> CountStatus(results, "FAILED") = 0

\* C3 amended: the entry point exits 0 if and only if the comprehensive
\* report was generated and no recorded suite has status FAILED, and exits 1
\* otherwise; SKIPPED suites never change the exit code.
C3_ExitZeroIffReportedAndNoFailed ==
  pc = "exited" =>
    /\ exitCode \in {0, 1}
    /\ exitCode = 0 <=> (report.generated /\ CountStatus(results, "FAILED") = 0)

C3_Witness ==
  /\ pc = "exited"
  /\ exitCode = 0
  /\ CountStatus(results, "SKIPPED") = 2
  /\ CountStatus(results, "PASSED") = 1

\* ---------------------------------------------------------------- C4
\* C4: for every results collection, the empty one included, the report's
\* passed + failed + skipped equals the number of results, which is
\* totalTestSuites.
C4_CountsSumToTotal ==
  report.generated =>
    /\ report.summary.totalTestSuites = Len(report.results)
    /\ report.summary.passed + report.summary.failed + report.summary.skipped
         = Len(report.results)

C4_Witness ==
  /\ report.generated
  /\ report.summary.passed > 0
  /\ report.summary.failed > 0
  /\ report.summary.skipped > 0

\* ---------------------------------------------------------------- C5
\* C5: overallScore is 100 * passed / total rounded to the nearest integer
\* (halves up) when total > 0 and 0 when total = 0; one PASSED and one FAILED
\* result give passed 1, failed 1, skipped 0, overallScore 50.
C5_OverallScoreIsRoundedPercentage ==
  report.generated =>
    LET sum   == report.summary
        total == Len(report.results)
        pass  == Cardinality({i \in DOMAIN report.results :
                                report.results[i].status = "PASSED"})
    IN /\ total = 0 => sum.overallScore = 0
       /\ total > 0 =>
            /\ 2 * total * sum.overallScore - total <= 200 * pass
            /\ 200 * pass < 2 * total * sum.overallScore + total
       /\ (total = 2 /\ pass = 1 /\ sum.skipped = 0) =>
            (sum.passed = 1 /\ sum.failed = 1 /\ sum.overallScore = 50)

C5_Witness ==
  /\ report.generated
  /\ Len(report.results) = 3
  /\ report.summary.passed = 2
  /\ report.summary.overallScore = 67

\* ---------------------------------------------------------------- C6
\* C6: with an empty results collection the summary is passed 0, failed 0,
\* skipped 0, overallScore 0, and the HTML report is rendered with zero
\* counts and no result item.
C6_EmptyResultsRenderZeroReport ==
  (report.generated /\ report.results = <<>>) =>
    /\ report.summary.passed = 0
    /\ report.summary.failed = 0
    /\ report.summary.skipped = 0
    /\ report.summary.overallScore = 0
    /\ html.rendered
    /\ html.score = 0
    /\ html.cards = <<0, 0, 0, 0>>
    /\ html.items = <<>>

C6_Witness ==
  /\ pc = "main_then"
  /\ report.generated
  /\ report.results = <<>>
  /\ html.rendered

\* ---------------------------------------------------------------- C7
\* C7: for every category that has both a score and a threshold, the mark
\* printed for it is pass if and only if score >= threshold.
C7_VerdictIffScoreAtLeastThreshold ==
  scores # NoScores =>
    \A c \in DOMAIN scores \cap DOMAIN thresholds :
      verdicts[c] = "pass" <=> scores[c] >= thresholds[c]

C7_Witness ==
  /\ scores # NoScores
  /\ "performance" \in DOMAIN thresholds
  /\ scores["performance"] = thresholds["performance"]
  /\ verdicts["performance"] = "pass"
  /\ "seo" \in DOMAIN thresholds
  /\ scores["seo"] < thresholds["seo"]
  /\ verdicts["seo"] = "fail"

\* ---------------------------------------------------------------- C8
\* C8: when the audit tool ran and its result was parsed, runLighthouseAudit
\* returns true if and only if the mark of every one of the four categories
\* is pass.
C8_AuditPassesIffAllCategoriesPass ==
  (scores # NoScores /\ outcome["lighthouseAudit"].kind = "value") =>
    (outcome["lighthouseAudit"].value
       <=> \A c \in CategorySet : verdicts[c] = "pass")

C8_Witness ==
  /\ scores # NoScores
  /\ outcome["lighthouseAudit"] = Value(FALSE)
  /\ Cardinality({c \in CategorySet : verdicts[c] = "fail"}) = 1

\* ---------------------------------------------------------------- C9
\* C9 as stated: a category with a score but no threshold entry is
\* unconstrained: its mark is not a failure and it cannot make the overall
\* verdict false (the audit passes when every category that has a threshold
\* meets it).
C9_MissingThresholdIsUnconstrained ==
  (scores # NoScores /\ outcome["lighthouseAudit"].kind = "value") =>
    /\ \A c \in DOMAIN scores \ DOMAIN thresholds : verdicts[c] # "fail"
    /\ (\A c \in DOMAIN scores \cap DOMAIN thresholds : scores[c] >= thresholds[c])
         => outcome["lighthouseAudit"].value

\* C9 amended: a category with a score but no threshold entry is compared
\* with undefined, which no score satisfies: its mark is a failure and the
\* overall audit verdict is false.
C9_MissingThresholdFailsAudit ==
  (scores # NoScores /\ outcome["lighthouseAudit"].kind = "value") =>
    \A c \in DOMAIN scores \ DOMAIN thresholds :
      /\ verdicts[c] = "fail"
      /\ outcome["lighthouseAudit"].value = FALSE

C9_Witness ==
  /\ scores # NoScores
  /\ "seo" \notin DOMAIN thresholds
  /\ scores["seo"] = 100
  /\ \A c \in DOMAIN thresholds : scores[c] >= thresholds[c]
  /\ outcome["lighthouseAudit"] = Value(FALSE)

\* --------------------------------------------------------------- C10
LighthousePcs == {"lh_curl", "lh_tool", "lh_parse", "lh_record"}
BrowserPcs    == {"br_curl", "br_gen", "br_install", "br_run", "br_summary", "br_record"}
DeployPcs     == {"dep_actions", "dep_domain", "dep_seo", "dep_report", "dep_record"}

\* C10: suites run one after another in the order audit, browser
\* compatibility, deployment: the recorded names are always a prefix of the
\* enabled suites in that order, a suite is only running when every enabled
\* suite before it has been recorded (and no later one has), and the
\* rendered report lists the suites in the order of the results.
C10_SuitesRunAndReportInFixedOrder ==
  /\ Len(results) <= Len(EnabledSuites)
  /\ Names(results) = SubSeq(EnabledSuites, 1, Len(results))
  /\ pc \in LighthousePcs => Names(results) = <<>>
  /\ pc \in BrowserPcs => Names(results) = <<"lighthouseAudit">>
  /\ pc \in DeployPcs =>
       Names(results) = (IF runLocal THEN <<"lighthouseAudit", "browserTests">> ELSE <<>>)
  /\ html.rendered =>
       /\ Names(results) = EnabledSuites
       /\ [i \in DOMAIN html.items |-> html.items[i].heading[2]] = Names(results)

C10_Witness ==
  /\ html.rendered
  /\ Len(html.items) = 3
  /\ html.items[1].heading[2] = "lighthouseAudit"
  /\ html.items[3].heading[2] = "deploymentVerification"

\* --------------------------------------------------------------- C11
\* C11: the status the runner records for a suite is computed from the
\* suite's outcome: PASSED when the wrapper returned true, FAILED when it
\* returned false, SKIPPED when it was not run, and FAILED with the error's
\* message when it threw; no other status is ever recorded.
C11_StatusComputedFromOutcome ==
  \A i \in DOMAIN results :
    LET r == results[i]
        o == outcome[r.name] IN
    /\ r.status \in {"PASSED", "FAILED", "SKIPPED"}
    /\ o.kind = "none"  => r.status = "SKIPPED"
    /\ o.kind = "throw" => r.status = "FAILED" /\ r.error = o.message
    /\ o.kind = "value" => r.status = (IF o.value THEN "PASSED" ELSE "FAILED")

C11_Witness ==
  /\ Len(results) = 3
  /\ results[1].status = "SKIPPED" /\ outcome["lighthouseAudit"].kind = "none"
  /\ results[2].status = "PASSED" /\ outcome["browserTests"] = Value(TRUE)
  /\ results[3].status = "FAILED" /\ outcome["deploymentVerification"].kind = "throw"

C13_HtmlShowsEveryResult ==
  html.rendered =>
    /\ Len(html.items) = Len(results)
    /\ \A i \in DOMAIN results :
         LET r == results[i]
             item == html.items[i] IN
         /\ item.heading[2] = r.name
         /\ item.badge[2] = r.status
         /\ item.heading[1] = (CASE r.status = "PASSED"  -> "check"
                                 [] r.status = "FAILED"  -> "cross"
                                 [] r.status = "SKIPPED" -> "skip")
         /\ item.badge[1] = (CASE r.status = "PASSED"  -> "#22c55e"
                               [] r.status = "FAILED"  -> "#ef4444"
                               [] r.status = "SKIPPED" -> "#f59e0b")
         /\ item.description = r.description
         /\ (item.errorText # <<>>) <=> (r.error # Undefined)
         /\ r.error # Undefined => item.errorText[2] = r.error
         /\ (item.detailText # <<>>) <=> (r.details # Undefined)
         /\ r.details # Undefined => item.detailText[1] = r.details
    /\ html.score = OverallScore(CountStatus(results, "PASSED"), Len(results))
    /\ html.cards[1] = CountStatus(results, "PASSED")
    /\ html.cards[2] = CountStatus(results, "FAILED")
    /\ html.cards[3] = CountStatus(results, "SKIPPED")

C13_Witness ==
  /\ html.rendered
  /\ Len(results) = 3
  /\ results[1].error # Undefined /\ results[1].details = Undefined
  /\ results[2].error = Undefined /\ results[2].details # Undefined
  /\ results[3].error # Undefined /\ results[3].details # Undefined
  /\ {results[i].status : i \in 1..3} = {"PASSED", "FAILED", "SKIPPED"}

\* --------------------------------------------------------------- C14
JsonReports == {p \in DOMAIN disk : p.file = "integration-test-report.json"}

C15_NoReportFileOverwritten ==
  [][/\ \A p \in DOMAIN disk : p \in DOMAIN disk' /\ disk'[p] = disk[p]
     /\ \A p \in DOMAIN disk' :
          (p \notin DOMAIN disk \/ disk'[p] # disk[p]) =>
             p \notin DOMAIN disk /\ p.stamp = clock']_vars

\* --------------------------------------------------------------- C17
\* the runner's probe before a local suite has just found the server down
ProbeFoundServerDown(checkAt) == pc = checkAt /\ pc' # checkAt /\ ~serverUp

\* the suite is stored SKIPPED and its wrapper is not entered
SkippedWithoutWrapper(name, wrapperPcs) ==
  /\ Len(results') = Len(results) + 1
  /\ SubSeq(results', 1, Len(results)) = results
  /\ results'[Len(results')].name = name
  /\ results'[Len(results')].status = "SKIPPED"
  /\ results'[Len(results')].error = "Local server not accessible"
  /\ pc' \notin wrapperPcs
  /\ outcome' = outcome
  /\ outcome[name] = NoRet

BothLocalSuitesSkipped ==
  /\ runDeployment
  /\ Recorded("lighthouseAudit") /\ ResultOf("lighthouseAudit").status = "SKIPPED"
  /\ Recorded("browserTests") /\ ResultOf("browserTests").status = "SKIPPED"

\* the runner is inside the deployment suite or has recorded its outcome
DeploymentStillRun ==
  \/ pc \in DeployPcs
  \/ /\ Recorded("deploymentVerification")
     /\ outcome["deploymentVerification"] # NoRet
     /\ ResultOf("deploymentVerification").status # "SKIPPED"

\* C17: when the runner's probe finds the local server not running, the
\* audit suite and the browser suite are each recorded SKIPPED with error
\* 'Local server not accessible' without their wrapper being invoked, and
\* the deployment suite is still run: with both local suites skipped the
\* runner goes on into the deployment suite and records its result before
\* it reports.
C17_ServerDownSkipsLocalSuites ==
  /\ [][/\ ProbeFoundServerDown("lh_check") =>
             SkippedWithoutWrapper("lighthouseAudit", LighthousePcs)
        /\ ProbeFoundServerDown("br_check") =>
             SkippedWithoutWrapper("browserTests", BrowserPcs)]_vars
  /\ [](BothLocalSuitesSkipped => DeploymentStillRun)

C17_Witness ==
  /\ Len(results) = 3
  /\ results[1].status = "SKIPPED" /\ results[1].error = "Local server not accessible"
  /\ results[2].status = "SKIPPED" /\ results[2].error = "Local server not accessible"
  /\ outcome["lighthouseAudit"] = NoRet /\ outcome["browserTests"] = NoRet
  /\ results[3].name = "deploymentVerification" /\ results[3].status = "PASSED"

\* --------------------------------------------------------------- C18
\* C18 as stated: when installing a required tool fails (npm install of
\* lighthouse or @playwright/test, or npx playwright install), the suite
\* that needs the tool is marked FAILED.
C18_InstallFailureMarksSuiteFailed ==
  /\ ("npm install lighthouse" \in procFailed /\ Recorded("lighthouseAudit"))
       => ResultOf("lighthouseAudit").status = "FAILED"
  /\ ("npm install @playwright/test" \in procFailed /\ Recorded("browserTests"))
       => ResultOf("browserTests").status = "FAILED"
  /\ ("npx playwright install" \in procFailed /\ Recorded("browserTests"))
       => ResultOf("browserTests").status = "FAILED"

\* C18: a failed installation is only logged and the run goes on; the
\* suite is marked FAILED when the tool itself then cannot be run: a
\* failed lighthouse invocation makes the audit suite FAILED and a failed
\* playwright test invocation makes the browser suite FAILED.
C18_ToolFailureMarksSuiteFailed ==
  /\ ("npx lighthouse" \in procFailed /\ Recorded("lighthouseAudit"))
       => /\ ResultOf("lighthouseAudit").status = "FAILED"
          /\ outcome["lighthouseAudit"] = Value(FALSE)
  /\ ("npx playwright test" \in procFailed /\ Recorded("browserTests"))
       => /\ ResultOf("browserTests").status = "FAILED"
          /\ outcome["browserTests"] = Value(FALSE)
  /\ pc = "exited" =>
       exitSite \in {"integration-test.js:435", "integration-test.js:439"}
                    \cup WrapperExitSites \cup {SetupSites[i] : i \in DOMAIN SetupSites}

\* both npm installs and the browser installation failed; the audit still
\* passed and the browser suite failed on its test invocation
C18_Witness ==
  /\ {"npm install lighthouse", "npm install @playwright/test",
      "npx playwright install", "npx playwright test"} \subseteq procFailed
  /\ Recorded("lighthouseAudit") /\ ResultOf("lighthouseAudit").status = "PASSED"
  /\ Recorded("browserTests") /\ ResultOf("browserTests").status = "FAILED"

\* --------------------------------------------------------------- C20
\* the top-level statements with which a suite's module creates the
\* directory its reports go to
SuiteSetupSites == {"lighthouse-test.js:31", "browser-test.js:32", "deployment-test.js:28"}

\* C20: in the aggregated runner a filesystem error that prevents a suite's
\* report output aborts only that suite's invocation: the process never
\* ends at a suite's own directory set-up, and a suite whose report write
\* threw is recorded FAILED with the error's message while the runner goes
\* on to its comprehensive report.
C20_ReportOutputErrorNeverAbortsBatch ==
  /\ pc = "exited" => exitSite \notin SuiteSetupSites
  /\ \A name \in SuiteSet :
       (outcome[name].kind = "throw" /\ pc # "dep_record") =>
          /\ Recorded(name)
          /\ ResultOf(name).status = "FAILED"
          /\ ResultOf(name).error = outcome[name].message

\* --------------------------------------------------------------- C16
\* the 'timeout' event is being handled
TimeoutFires == InFlight /\ http.idle = TimeoutSeconds /\ http' # http

\* the caller of checkHTTPS resumes after a rejection with 'Request timeout'
ResumesAfterTimeout(awaitAt) ==
  /\ pc = awaitAt /\ pc' # awaitAt
  /\ http.state = "rejected" /\ http.message = "Request timeout"

CheckFailed(name, next) ==
  /\ deployResults'[Len(deployResults')].name = name
  /\ deployResults'[Len(deployResults')].status = "FAILED"
  /\ pc' = next

SeoRecorded == \E i \in DOMAIN deployResults : deployResults[i].name = "seoMetadata"
SeoResult ==
  deployResults[CHOOSE i \in DOMAIN deployResults : deployResults[i].name = "seoMetadata"]

\* C19: in verifySEOAndMetadata a missing marker is a failed check, not a
\* throw: the check is always recorded and the run goes on; when the page
\* is reachable with status 200 the check passes if and only if every
\* required meta tag is found, whatever the page has of Theme Color,
\* structured data and favicon.
C19_SeoPassesIffRequiredTagsFound ==
  /\ SeoRecorded =>
       /\ pc \in {"dep_report", "main_then", "main_catch", "exited"}
       /\ Settled
       /\ (http.state = "resolved" /\ http.statusCode = 200) =>
            ((SeoResult.status = "PASSED") <=>
               ({"Title", "Description", "OG Title", "OG Description", "OG Image",
                 "OG URL", "Twitter Card", "Canonical URL"} \subseteq http.page.found))
       /\ ~(http.state = "resolved" /\ http.statusCode = 200) =>
            SeoResult.status = "FAILED"
  /\ pc \in {"main_then", "main_catch", "exited"} /\ exitSite # "deployment-test.js:28"
       => SeoRecorded

\* a page with every required tag but without Theme Color, structured data
\* and favicon passes
C19_Witness ==
  /\ SeoRecorded
  /\ SeoResult.status = "PASSED"
  /\ "Theme Color" \notin http.page.found
  /\ http.page.jsonLd = "none"
  /\ ~http.page.favicon

\* --------------------------------------------------------------- C21
DomainRecorded == \E i \in DOMAIN deployResults : deployResults[i].name = "domainHTTPS"
DomainResult ==
  deployResults[CHOOSE i \in DOMAIN deployResults : deployResults[i].name = "domainHTTPS"]

\* C21: when the custom domain is not configured (there is no CNAME file)
\* the domain check is skipped: it is never recorded as FAILED.
C21_MissingCnameSkipsDomainCheck ==
  (cname = "missing" /\ DomainRecorded) => DomainResult.status # "FAILED"

\* --------------------------------------------------------------- C26
\* C26: once verifyDomainAndHTTPS has returned, its result is PASSED if and
\* only if the CNAME file exists, its trimmed content equals the configured
\* domain and the HTTPS response has status 200; the warnings for a
\* certificate outside its validity window and for a body without the
\* site's name do not change the result.
C26_DomainPassesIffCnameAndStatus200 ==
  pc = "dep_seo" =>
    /\ DomainRecorded
    /\ cname \in CnameStates
    /\ (DomainResult.status = "PASSED") <=>
         /\ cname # "missing"
         /\ cname = "match"
         /\ http.state = "resolved"
         /\ http.statusCode = 200
    /\ DomainResult.status \in {"PASSED", "FAILED"}
    /\ cname # "match" => http.state = "none"

\* the check has passed although the certificate is outside its window and
\* the body lacks the site's name
C26_Witness ==
  /\ pc = "dep_seo"
  /\ DomainResult.status = "PASSED"
  /\ http.certificate = "expired"
  /\ ~http.page.marker
  /\ Cardinality(DomainWarnings(Awaited(http))) = 2

\* --------------------------------------------------------------- C24
\* the three checks of runDeploymentTests in the order of the source
DeployChecks == <<"githubActions", "domainHTTPS", "seoMetadata">>

\* how many checks are recorded at each position of runDeploymentTests
DeployChecksRunInOrder ==
  /\ Names(deployResults) = SubSeq(DeployChecks, 1, Len(deployResults))
  /\ \A i \in DOMAIN deployResults : deployResults[i].status \in {"PASSED", "FAILED"}
  /\ pc = "dep_actions" => Len(deployResults) = 0
  /\ pc \in {"dep_domain", "dep_domain_await"} => Len(deployResults) = 1
  /\ pc \in {"dep_seo", "dep_seo_await"} => Len(deployResults) = 2
  /\ pc = "dep_report" => Len(deployResults) = 3
  /\ outcome["deploymentVerification"] # NoRet => Len(deployResults) = 3

\* C24 as stated: the three checks run in the order githubActions,
\* domainHTTPS, seoMetadata whatever the earlier ones gave, exactly three
\* results are recorded, each PASSED or FAILED, and the function returns
\* true if and only if none of the three is FAILED.
C24_ReturnsTrueIffNoneFailed ==
  /\ DeployChecksRunInOrder
  /\ outcome["deploymentVerification"] # NoRet =>
       ((outcome["deploymentVerification"] = Value(TRUE)) <=>
          (\A i \in DOMAIN deployResults : deployResults[i].status # "FAILED"))

\* C24: the three checks run in that order whatever the earlier ones gave
\* and exactly three results are recorded, each PASSED or FAILED; when the
\* report file has been written the function returns whether none of the
\* three is FAILED, and when writing the report throws, the function
\* throws that error instead of returning.
C24_ReturnsNoneFailedOnceReportWritten ==
  /\ DeployChecksRunInOrder
  /\ outcome["deploymentVerification"] # NoRet =>
       IF "deployment-test.json" \in written
       THEN outcome["deploymentVerification"] =
              Value(\A i \in DOMAIN deployResults : deployResults[i].status # "FAILED")
       ELSE /\ outcome["deploymentVerification"].kind = "throw"
            /\ outcome["deploymentVerification"].message \in WriteErrors

\* the first two checks failed, the third still ran and passed, and the
\* function returned false
C24_Witness ==
  /\ outcome["deploymentVerification"] = Value(FALSE)
  /\ Len(deployResults) = 3
  /\ deployResults[1].status = "FAILED"
  /\ deployResults[2].status = "FAILED"
  /\ deployResults[3].status = "PASSED"

\* --------------------------------------------------------------- C25
\* the browsers are run in the order of CONFIG.browsers, each recorded
BrowsersRunInOrder ==
  /\ [i \in DOMAIN browserResults |-> browserResults[i].browser] =
       SubSeq(CONFIG_browsers, 1, Len(browserResults))
  /\ \A i \in DOMAIN browserResults : browserResults[i].status \in {"PASSED", "FAILED"}
  /\ pc \in {"br_curl", "br_gen", "br_install"} => Len(browserResults) = 0
  /\ pc = "br_run" => Len(browserResults) < Len(CONFIG_browsers)
  /\ pc = "br_summary" => Len(browserResults) = Len(CONFIG_browsers)

\* C25 as stated: once the probe of the local server has succeeded the
\* tool is run once per browser in the order chromium, firefox, webkit, a
\* failure is recorded as FAILED for that browser and the later browsers
\* still run, and the function returns true if and only if every
\* browser's result is PASSED.
C25_ReturnsTrueIffEveryBrowserPassed ==
  /\ BrowsersRunInOrder
  /\ outcome["browserTests"] # NoRet =>
       /\ Len(browserResults) = Len(CONFIG_browsers)
       /\ (outcome["browserTests"] = Value(TRUE)) <=>
            (\A i \in DOMAIN browserResults : browserResults[i].status = "PASSED")

\* C25: once the probe has succeeded and the generated test file has been
\* written, the tool is run once per browser in the order chromium,
\* firefox, webkit, a failure is recorded as FAILED for that browser and
\* the later browsers still run; the function returns true if and only if
\* every browser's result is PASSED and the summary file has been written:
\* an error while writing either file makes it return false.
C25_ReturnsTrueIffPassedAndWritten ==
  /\ BrowsersRunInOrder
  /\ outcome["browserTests"] # NoRet =>
       /\ outcome["browserTests"].kind = "value"
       /\ "browser-tests.spec.js" \in written =>
            Len(browserResults) = Len(CONFIG_browsers)
       /\ "browser-tests.spec.js" \notin written => Len(browserResults) = 0
       /\ outcome["browserTests"].value <=>
            /\ Len(browserResults) = Len(CONFIG_browsers)
            /\ \A i \in DOMAIN browserResults : browserResults[i].status = "PASSED"
            /\ "browser-test-summary.json" \in written

\* chromium failed, firefox and webkit still ran and passed, and the
\* function returned false
C25_Witness ==
  /\ outcome["browserTests"] = Value(FALSE)
  /\ "browser-test-summary.json" \in written
  /\ Len(browserResults) = 3
  /\ browserResults[1] = [browser |-> "chromium", status |-> "FAILED"]
  /\ browserResults[2] = [browser |-> "firefox", status |-> "PASSED"]
  /\ browserResults[3] = [browser |-> "webkit", status |-> "PASSED"]

\* --------------------------------------------------------------- C27
\* the runner leaves the probe before a local suite
ProbeTaken(checkAt) == pc = checkAt /\ pc' # checkAt

\* what a probe does with the suite: skipped when the server is down at
\* this moment, called otherwise; the results stored before stay as they are
ProbeDecides(name, callAt, skipTo) ==
  IF serverUp
  THEN pc' = callAt /\ results' = results
  ELSE /\ pc' = skipTo
       /\ results' = Append(results, SkippedResult(name))

\* the audit ran and the browser suite was skipped in the same run
AuditRunBrowserSkipped ==
  /\ Recorded("lighthouseAudit") /\ Recorded("browserTests")
  /\ ResultOf("lighthouseAudit").status \in {"PASSED", "FAILED"}
  /\ ResultOf("browserTests").status = "SKIPPED"

\* C27: the runner probes the local server once before the audit suite and
\* once more before the browser suite, and each suite is skipped exactly
\* when its own probe finds the server down, whatever the other probe
\* found: the second decision neither reuses nor changes the first.
C27_EachSuiteDecidedByItsOwnProbe ==
  [][/\ ProbeTaken("lh_check") => ProbeDecides("lighthouseAudit", "lh_curl", "br_check")
     /\ ProbeTaken("br_check") => ProbeDecides("browserTests", "br_curl", AfterLocal)]_vars

\* the server came up between the probes: the audit was skipped and the
\* browser suite was executed in the same run
C27_Witness ==
  /\ Recorded("lighthouseAudit") /\ Recorded("browserTests")
  /\ ResultOf("lighthouseAudit").status = "SKIPPED"
  /\ ResultOf("browserTests").status \in {"PASSED", "FAILED"}
  /\ flips > 0

\* ./run-tests.sh with up to MaxArgs words; no node process runs yet
InitShell ==
  /\ main = "none"
  /\ runLocal = TRUE
  /\ runDeployment = TRUE
  /\ thresholds = CONFIG_thresholds
  /\ serverUp \in BOOLEAN
  /\ pc = "idle"
  /\ results = <<>>
  /\ InitProcess
  /\ \E a \in ArgLists(MaxArgs) :
       sh = [pc |-> "prereq", args |-> a, localTests |-> TRUE, deploymentTests |-> TRUE,
             overallSuccess |-> TRUE, running |-> "none", ran |-> {}, status |-> -1]
  /\ img = NotStarted
  /\ win = NotStarted
  /\ anim = NotStarted
  /\ rv = NotStarted

NextShell ==
  \/ ShellPrerequisites
  \/ ShellOption
  \/ ShellStartServer
  \/ ShellNode
  \/ ShellNodeEnded
  \/ ShellSummary
  \/ LoadModules
  \/ InstallDependencies
  \/ CheckLighthouse
  \/ LighthouseProbe
  \/ LighthouseTool
  \/ LighthouseEvaluate
  \/ RecordLighthouse
  \/ CheckBrowser
  \/ BrowserProbe
  \/ BrowserGenerate
  \/ BrowserInstall
  \/ BrowserRun
  \/ BrowserSummary
  \/ RecordBrowser
  \/ DeployGitHubActions
  \/ DeployDomainHTTPS
  \/ DeploySEOMetadata
  \/ DeployReport
  \/ RecordDeployment
  \/ GenerateReport
  \/ EntryThen
  \/ EntryCatch

SpecShell == InitShell /\ [][NextShell]_vars

\* --------------------------------------------------------------- C22
\* the option --local-only has been read
LocalOnly == sh.pc \notin {"none", "prereq"} /\ ~sh.deploymentTests

\* C22: invoked with --local-only, run-tests.sh runs only the local tests:
\* no node process it starts is ever inside the GitHub Pages deployment
\* verification or has recorded one of its checks.
C22_LocalOnlyNeverRunsDeploymentVerification ==
  LocalOnly =>
    /\ pc \notin DeployPcs
    /\ deployResults = <<>>
    /\ "deployment" \notin sh.ran

\* no test script and no shell script is running
InitScripts ==
  /\ main = "none"
  /\ runLocal = TRUE
  /\ runDeployment = TRUE
  /\ thresholds = CONFIG_thresholds
  /\ serverUp = TRUE
  /\ pc = "idle"
  /\ results = <<>>
  /\ InitProcess
  /\ sh = NotStarted

\* the browser has parsed the page: any device, any preferences, any of the
\* hero image's sources; no script of the page has run yet
InitLoad ==
  /\ InitScripts
  /\ anim = NotStarted
  /\ rv = NotStarted
  /\ win \in [pc : {"parsed"}, innerWidth : Widths, deviceMemory : DeviceMemories,
               effectiveType : EffectiveTypes, reducedMotion : BOOLEAN,
               highContrast : BOOLEAN, forcedColors : BOOLEAN]
  /\ \E src \in HeroSources : img = NewImage(src)

NextLoad ==
  \/ DomContentLoaded
  \/ PageReady
  \/ ImageError
  \/ ImageLoad

SpecLoad == InitLoad /\ [][NextLoad]_vars

\* the page in use on a desktop and on a phone: the window is resized and
\* turned, the user switches preferences
InitPage ==
  /\ InitScripts
  /\ anim = NotStarted
  /\ rv = NotStarted
  /\ win \in [pc : {"parsed"}, innerWidth : {1024}, deviceMemory : {0, 8},
               effectiveType : {"none"}, reducedMotion : BOOLEAN,
               highContrast : {FALSE}, forcedColors : {FALSE}]
  /\ img = NewImage(WebP)

NextPage ==
  \/ DomContentLoaded
  \/ PageReady
  \/ WindowResize
  \/ ResizeTimeout
  \/ OrientationChange
  \/ OrientationTimeout
  \/ ReducedMotionChange
  \/ HighContrastChange

SpecPage == InitPage /\ [][NextPage]_vars

\* --------------------------------------------------------------- C23
\* an 'error' event of the hero image is being handled by handleImageError
ErrorHandled ==
  /\ img.listening /\ img.status = "loading"
  /\ img' # img /\ img'.status # "complete"

\* what one call of handleImageError may do
RetriesOnceThenFallsBack ==
  /\ (~img.retryAttempted /\ img.src = WebP) =>
       /\ img'.src = Png /\ img'.status = "loading"
       /\ img'.display = img.display /\ img'.fallback = img.fallback
  /\ img.retryAttempted =>
       /\ img'.src = img.src
       /\ img'.display = "none" /\ img'.fallback = "block"
  /\ img'.src # img.src => ~img.retryAttempted /\ img'.retryAttempted

\* the sources the browser was asked for, in order
TriedInOrder ==
  /\ Len(img.requested) <= 2
  /\ img.requested[Len(img.requested)] = img.src
  /\ (img.requested[1] = WebP /\ Len(img.requested) = 2) => img.requested[2] = Png
  /\ img.fallback = "block" => img.display = "none" /\ img.status = "broken"
  /\ (img.fallback = "block" /\ img.requested[1] = WebP) => img.requested = <<WebP, Png>>

C28_ModeFollowsStrictPrecedence ==
  win.pc = "ready" =>
    LET known   == win.deviceMemory # 0
        minimal == win.innerWidth <= 320 \/ (known /\ win.deviceMemory < 2)
                     \/ win.effectiveType = "slow-2g"
        low     == win.innerWidth <= 767 \/ (known /\ win.deviceMemory < 4)
                     \/ win.effectiveType = "3g"
        medium  == win.innerWidth \in 768..1023 \/ ~known \/ win.deviceMemory < 6
                     \/ win.effectiveType = "4g"
    IN  /\ (win.reducedMotion \/ win.highContrast \/ win.forcedColors) =>
             anim.performanceMode = "minimal"
        /\ ~(win.reducedMotion \/ win.highContrast \/ win.forcedColors) =>
             /\ minimal => anim.performanceMode = "minimal"
             /\ (~minimal /\ low) => anim.performanceMode = "low"
             /\ (~minimal /\ ~low /\ medium) => anim.performanceMode = "medium"
             /\ (~minimal /\ ~low /\ ~medium) => anim.performanceMode = "high"
        /\ anim.performanceMode = "high" => known /\ win.effectiveType # "4g"

\* a wide window without deviceMemory and without connection information
\* gets 'medium'
C28_Witness ==
  /\ win.pc = "ready"
  /\ win.innerWidth = 1024 /\ win.deviceMemory = 0 /\ win.effectiveType = "none"
  /\ ~AccessibilityPreference(win)
  /\ anim.performanceMode = "medium"

\* --------------------------------------------------------------- C29
\* a timeout of a resize listener, or of an orientationchange listener, runs
ResizeTimeoutRuns ==
  win.pc = "ready" /\ win' = win /\ anim'.resizeTimeouts = anim.resizeTimeouts - 1
OrientationTimeoutRuns ==
  win.pc = "ready" /\ win' = win /\ anim'.orientationTimeouts = anim.orientationTimeouts - 1

\* one more listener of each kind is registered
ListenersAdded(n) ==
  /\ anim'.resizeListeners = anim.resizeListeners + n
  /\ anim'.orientationListeners = anim.orientationListeners + n

\* the window's width changes
Resized == win.pc = "ready" /\ win'.innerWidth # win.innerWidth

\* C29: every call of detectPerformanceMode without an accessibility
\* preference registers one more resize listener and one more
\* orientationchange listener; a resize makes every resize listener
\* schedule its own call of detectPerformanceMode, so after a resize in a
\* quiet state with n listeners n calls run and the listeners double.
C29_ResizeListenersDouble ==
  [][/\ (ResizeTimeoutRuns /\ ~AccessibilityPreference(win)) =>
          /\ ListenersAdded(1)
          /\ anim'.resizeListeners + anim'.resizeTimeouts =
               anim.resizeListeners + anim.resizeTimeouts
     /\ (OrientationTimeoutRuns /\ ~AccessibilityPreference(win)) => ListenersAdded(1)
     /\ Resized =>
          /\ ListenersAdded(0)
          /\ anim'.resizeTimeouts = anim.resizeListeners
          /\ anim.resizeTimeouts = 0 =>
               anim'.resizeListeners + anim'.resizeTimeouts = 2 * anim.resizeListeners]_vars
  /\ [](win.pc = "ready" =>
          /\ anim.resizeListeners = anim.orientationListeners
          /\ anim.resizeTimeouts <= anim.resizeListeners)

\* four resize listeners and nothing pending, without any accessibility
\* listener: one from init(), doubled twice
C29_Witness ==
  /\ win.pc = "ready"
  /\ anim.resizeListeners = 4 /\ anim.orientationListeners = 4
  /\ anim.resizeTimeouts = 0 /\ anim.orientationTimeouts = 0
  /\ anim.motionListeners = 0

\* new ResponsiveVerification().runAllTests() on any of the documents
InitResponsive ==
  /\ InitScripts
  /\ img = NotStarted
  /\ win = NotStarted
  /\ anim = NotStarted
  /\ \E dom \in Documents : rv = NewVerification(dom)

NextResponsive ==
  \/ TestBreakpoints
  \/ TestTouchTargets
  \/ TestAnimations
  \/ TestAccessibility
  \/ GenerateResponsiveReport

SpecResponsive == InitResponsive /\ [][NextResponsive]_vars

\* --------------------------------------------------------------- C30
\* the plate has a positive width and height
PlatePositive == rv.dom.plate /\ rv.dom.plateWidth > 0 /\ rv.dom.plateHeight > 0

BreakpointsPassed == Cardinality({i \in DOMAIN rv.breakpoints : rv.breakpoints[i]})

====
